---- MODULE Spec2Model ----
(***************************************************************************)
(* Model of the geometry-sketchpad dependency tracking:                    *)
(*   - DependencyGraphManager (core/lib/src/systems/data_managers/          *)
(*     dependency_graph_manager.rs): the system that reads the geometry     *)
(*     event channel and keeps the DependencyGraph resource in step;        *)
(*   - the DependencyGraph resource (add / remove / remove_dependent /      *)
(*     recompute_order), whose code is not among the sources and is         *)
(*     modelled from section 4.1 of the specification.                      *)
(***************************************************************************)
EXTENDS Integers, Sequences, FiniteSets, TLC

\* ------------------------------------------------------------------ bounds
\* Entity ids in use at one time.
MaxEntities == 3
\* Geometry events written to the channel in one behaviour.
MaxEvents == 4
\* Edges of the graphs the graph operations and recompute_order are run on.
MaxEdges == 3
\* Entities added to a construction that is already in place.
MaxDerived == 1
\* Geometry events written after a construction is in place.
MaxVariantEvents == 2

Entities == 1..MaxEntities

\* ------------------------------------------------------- symbolic geometry
\* SymbolicPoint / SymbolicLine / SymbolicCircle variants, by the names the
\* manager matches on.  A definition is [tag, args]: args are the entities the
\* variant carries, in constructor order; the scalar payloads (coordinates,
\* parameter t, angle, branch selector) are bound to `_` by every arm of the
\* manager and are left out.
PointTags == {"Fixed", "Free", "MidPoint", "OnLine", "LineLineIntersect",
              "OnCircle", "CircleLineIntersect", "CircleCircleIntersect"}
LineTags == {"Straight", "Ray", "Segment", "Parallel", "Perpendicular"}
CircleTags == {"CenterRadius"}

Sym(tag, args) == [tag |-> tag, args |-> args]

\* Geometry::Point / Geometry::Line / Geometry::Circle wrapper of a definition.
GeomOf(sym) ==
  IF sym.tag \in PointTags THEN "Point"
  ELSE IF sym.tag \in LineTags THEN "Line"
  ELSE "Circle"

\* ------------------------------------------------ DependencyGraph resource
\* Entity -> set of dependents; an entity may have no entry at all.
EmptyGraph == <<>>

Dependents(g, e) == IF e \in DOMAIN g THEN g[e] ELSE {}

\* add(dependency, dependent): insert dependent into dependency's set.
Add(g, dependency, dependent) ==
  IF dependency \in DOMAIN g
  THEN [g EXCEPT ![dependency] = @ \cup {dependent}]
  ELSE (dependency :> {dependent}) @@ g

\* mutant: remove also scrubs the entity from every other dependent set
RemoveScrub(g, e) == [x \in DOMAIN g \ {e} |-> g[x] \ {e}]

\* remove(entity): delete the entity's own dependent-set entry.
Remove(g, e) == [x \in DOMAIN g \ {e} |-> g[x]]

\* remove_dependent(dependency, dependent)
RemoveDependent(g, dependency, dependent) ==
  IF dependency \in DOMAIN g
  THEN [g EXCEPT ![dependency] = @ \ {dependent}]
  ELSE g

\* The edges of a graph, as (dependency, dependent) pairs.
Edges(g) == UNION {{<<a, b>> : b \in g[a]} : a \in DOMAIN g}

\* Everything reachable from the entities of S along dependent edges, S included.
RECURSIVE Reach(_, _)
Reach(g, S) ==
  LET next == S \cup UNION {Dependents(g, n) : n \in S} IN
  IF next = S THEN S ELSE Reach(g, next)

\* The transitive dependents of e.
Descendants(g, e) == Reach(g, Dependents(g, e))

\* --------------------------------------------- DependencyGraphManager code
\* mutant: the second add of the MidPoint arm has its arguments swapped
insert_point_back(ent, sym_point, g) ==
  CASE sym_point.tag = "Fixed" -> g
    [] sym_point.tag = "Free" -> g
    [] sym_point.tag = "MidPoint" ->
         Add(Add(g, sym_point.args[1], ent), ent, sym_point.args[2])
    [] sym_point.tag = "OnLine" -> Add(g, sym_point.args[1], ent)
    [] sym_point.tag = "LineLineIntersect" ->
         Add(Add(g, sym_point.args[1], ent), sym_point.args[2], ent)
    [] sym_point.tag = "OnCircle" -> Add(g, sym_point.args[1], ent)
    [] sym_point.tag = "CircleLineIntersect" ->
         Add(Add(g, sym_point.args[1], ent), sym_point.args[2], ent)
    [] sym_point.tag = "CircleCircleIntersect" ->
         Add(Add(g, sym_point.args[1], ent), sym_point.args[2], ent)

\* mutant: the CircleCircleIntersect arm adds the edge of its first circle only
insert_point_first_circle(ent, sym_point, g) ==
  CASE sym_point.tag = "Fixed" -> g
    [] sym_point.tag = "Free" -> g
    [] sym_point.tag = "MidPoint" ->
         Add(Add(g, sym_point.args[1], ent), sym_point.args[2], ent)
    [] sym_point.tag = "OnLine" -> Add(g, sym_point.args[1], ent)
    [] sym_point.tag = "LineLineIntersect" ->
         Add(Add(g, sym_point.args[1], ent), sym_point.args[2], ent)
    [] sym_point.tag = "OnCircle" -> Add(g, sym_point.args[1], ent)
    [] sym_point.tag = "CircleLineIntersect" ->
         Add(Add(g, sym_point.args[1], ent), sym_point.args[2], ent)
    [] sym_point.tag = "CircleCircleIntersect" ->
         Add(g, sym_point.args[1], ent)

\* insert_point: one add per entity the point's definition carries.
insert_point(ent, sym_point, g) ==
  CASE sym_point.tag = "Fixed" -> g
    [] sym_point.tag = "Free" -> g
    [] sym_point.tag = "MidPoint" ->
         Add(Add(g, sym_point.args[1], ent), sym_point.args[2], ent)
    [] sym_point.tag = "OnLine" -> Add(g, sym_point.args[1], ent)
    [] sym_point.tag = "LineLineIntersect" ->
         Add(Add(g, sym_point.args[1], ent), sym_point.args[2], ent)
    [] sym_point.tag = "OnCircle" -> Add(g, sym_point.args[1], ent)
    [] sym_point.tag = "CircleLineIntersect" ->
         Add(Add(g, sym_point.args[1], ent), sym_point.args[2], ent)
    [] sym_point.tag = "CircleCircleIntersect" ->
         Add(Add(g, sym_point.args[1], ent), sym_point.args[2], ent)
insert_line(ent, sym_line, g) ==
  CASE sym_line.tag = "Straight" ->
         Add(Add(g, sym_line.args[1], ent), sym_line.args[2], ent)
    [] sym_line.tag = "Ray" ->
         Add(Add(g, sym_line.args[1], ent), sym_line.args[2], ent)
    [] sym_line.tag = "Segment" ->
         Add(Add(g, sym_line.args[1], ent), sym_line.args[2], ent)
    [] sym_line.tag = "Parallel" ->
         Add(Add(g, sym_line.args[1], ent), sym_line.args[2], ent)
    [] sym_line.tag = "Perpendicular" ->
         Add(Add(g, sym_line.args[1], ent), sym_line.args[2], ent)

insert_circle(ent, sym_circle, g) ==
  CASE sym_circle.tag = "CenterRadius" ->
         Add(Add(g, sym_circle.args[1], ent), sym_circle.args[2], ent)
\* mutant: the MidPoint arm is empty, like the Fixed and Free arms
remove_point_forgot(ent, sym_point, g) ==
  CASE sym_point.tag = "Fixed" -> g
    [] sym_point.tag = "Free" -> g
    [] sym_point.tag = "MidPoint" -> g
    [] sym_point.tag = "OnLine" -> RemoveDependent(g, sym_point.args[1], ent)
    [] sym_point.tag = "LineLineIntersect" ->
         RemoveDependent(RemoveDependent(g, sym_point.args[1], ent),
                         sym_point.args[2], ent)
    [] sym_point.tag = "OnCircle" -> RemoveDependent(g, sym_point.args[1], ent)
    [] sym_point.tag = "CircleLineIntersect" ->
         RemoveDependent(RemoveDependent(g, sym_point.args[1], ent),
                         sym_point.args[2], ent)
    [] sym_point.tag = "CircleCircleIntersect" ->
         RemoveDependent(RemoveDependent(g, sym_point.args[1], ent),
                         sym_point.args[2], ent)

\* mutant: the CircleLineIntersect arm forgets the line
remove_point_circle_only(ent, sym_point, g) ==
  CASE sym_point.tag = "Fixed" -> g
    [] sym_point.tag = "Free" -> g
    [] sym_point.tag = "MidPoint" ->
         RemoveDependent(RemoveDependent(g, sym_point.args[1], ent),
                         sym_point.args[2], ent)
    [] sym_point.tag = "OnLine" -> RemoveDependent(g, sym_point.args[1], ent)
    [] sym_point.tag = "LineLineIntersect" ->
         RemoveDependent(RemoveDependent(g, sym_point.args[1], ent),
                         sym_point.args[2], ent)
    [] sym_point.tag = "OnCircle" -> RemoveDependent(g, sym_point.args[1], ent)
    [] sym_point.tag = "CircleLineIntersect" ->
         RemoveDependent(g, sym_point.args[1], ent)
    [] sym_point.tag = "CircleCircleIntersect" ->
         RemoveDependent(RemoveDependent(g, sym_point.args[1], ent),
                         sym_point.args[2], ent)

\* remove_point: one remove_dependent per entity the definition carries.
remove_point(ent, sym_point, g) ==
  CASE sym_point.tag = "Fixed" -> g
    [] sym_point.tag = "Free" -> g
    [] sym_point.tag = "MidPoint" ->
         RemoveDependent(RemoveDependent(g, sym_point.args[1], ent),
                         sym_point.args[2], ent)
    [] sym_point.tag = "OnLine" -> RemoveDependent(g, sym_point.args[1], ent)
    [] sym_point.tag = "LineLineIntersect" ->
         RemoveDependent(RemoveDependent(g, sym_point.args[1], ent),
                         sym_point.args[2], ent)
    [] sym_point.tag = "OnCircle" -> RemoveDependent(g, sym_point.args[1], ent)
    [] sym_point.tag = "CircleLineIntersect" ->
         RemoveDependent(RemoveDependent(g, sym_point.args[1], ent),
                         sym_point.args[2], ent)
    [] sym_point.tag = "CircleCircleIntersect" ->
         RemoveDependent(RemoveDependent(g, sym_point.args[1], ent),
                         sym_point.args[2], ent)
remove_line(ent, sym_line, g) ==
  CASE sym_line.tag = "Straight" ->
         RemoveDependent(RemoveDependent(g, sym_line.args[1], ent),
                         sym_line.args[2], ent)
    [] sym_line.tag = "Ray" ->
         RemoveDependent(RemoveDependent(g, sym_line.args[1], ent),
                         sym_line.args[2], ent)
    [] sym_line.tag = "Segment" ->
         RemoveDependent(RemoveDependent(g, sym_line.args[1], ent),
                         sym_line.args[2], ent)
    [] sym_line.tag = "Parallel" ->
         RemoveDependent(RemoveDependent(g, sym_line.args[1], ent),
                         sym_line.args[2], ent)
    [] sym_line.tag = "Perpendicular" ->
         RemoveDependent(RemoveDependent(g, sym_line.args[1], ent),
                         sym_line.args[2], ent)

remove_circle(ent, sym_circle, g) ==
  CASE sym_circle.tag = "CenterRadius" ->
         RemoveDependent(RemoveDependent(g, sym_circle.args[1], ent),
                         sym_circle.args[2], ent)

\* GeometryEvent::Inserted(ent, geom, _)
HandleInserted(ent, sym, g) ==
  CASE GeomOf(sym) = "Point" -> insert_point(ent, sym, g)
    [] GeomOf(sym) = "Line" -> insert_line(ent, sym, g)
    [] GeomOf(sym) = "Circle" -> insert_circle(ent, sym, g)
\* mutant: the call of remove(ent) is missing
HandleRemovedKeepEntry(ent, sym, g) ==
  LET g1 == g IN
  CASE GeomOf(sym) = "Point" -> remove_point(ent, sym, g1)
    [] GeomOf(sym) = "Line" -> remove_line(ent, sym, g1)
    [] GeomOf(sym) = "Circle" -> remove_circle(ent, sym, g1)

\* GeometryEvent::Removed(ent, geom, _): remove(ent), then the mirror of the
\* insertion.
HandleRemoved(ent, sym, g) ==
  LET g1 == Remove(g, ent) IN
  CASE GeomOf(sym) = "Point" -> remove_point(ent, sym, g1)
    [] GeomOf(sym) = "Line" -> remove_line(ent, sym, g1)
    [] GeomOf(sym) = "Circle" -> remove_circle(ent, sym, g1)

\* mutant: every event that is not Inserted is handled as Removed
HandleEventElseRemoved(g, event) ==
  CASE event.kind = "Inserted" -> HandleInserted(event.ent, event.sym, g)
    [] OTHER -> HandleRemoved(event.ent, event.sym, g)

\* One iteration of the loop of run: the match on the event.
HandleEvent(g, event) ==
  CASE event.kind = "Inserted" -> HandleInserted(event.ent, event.sym, g)
    [] event.kind = "Removed" -> HandleRemoved(event.ent, event.sym, g)
    [] OTHER -> g

\* The loop of run over the events the reader yields, first to last.
RECURSIVE HandleEvents(_, _)
HandleEvents(g, events) ==
  IF events = <<>> THEN g
  ELSE HandleEvents(HandleEvent(g, Head(events)), Tail(events))

\* The entities a symbolic definition names.
Names(sym) == {sym.args[i] : i \in DOMAIN sym.args}

\* ------------------------------------------------------ SpatialHashTable
\* (old/src/resources/spatial_hash_table.rs.)  Actual-space coordinates are
\* integers (pixels); a point is <<x, y>>.  The struct is the record
\* [x_tiles, y_tiles, table]; table maps the tile index 0..n-1 to its set.
\* The operations take positions already in actual space: the value that
\* p.to_actual(vp) hands to get_cell.
TILE_SIZE == 40

\* Largest number of tiles along one axis of the viewports tried.
MaxTiles == 2
\* Calls made on one table after an init_viewport, the next init_viewport
\* included.
MaxHashOps == 2

\* (v / TILE_SIZE).floor()
FloorTile(v) == v \div TILE_SIZE

\* (v / TILE_SIZE).ceil()
CeilTile(v) == -((-v) \div TILE_SIZE)

\* Default::default()
DefaultTable == [x_tiles |-> 0, y_tiles |-> 0, table |-> <<>>]

\* vec![HashSet::new(); n]
EmptyTiles(n) == [i \in 0..(n - 1) |-> {}]

\* init_viewport: vp.w and vp.h are vp.actual_width() and vp.actual_height().
\* mutant: a table that has the number of tiles asked for is left as it is
init_viewport_kept(self, vp) ==
  LET xt == CeilTile(vp.w)
      yt == CeilTile(vp.h)
  IN [x_tiles |-> xt, y_tiles |-> yt,
      table |-> IF DOMAIN self.table = 0..(xt * yt - 1) /\ xt * yt > 0
                THEN self.table ELSE EmptyTiles(xt * yt)]

init_viewport(self, vp) ==
  LET xt == CeilTile(vp.w)
      yt == CeilTile(vp.h)
  IN [x_tiles |-> xt, y_tiles |-> yt, table |-> EmptyTiles(xt * yt)]

get_cell_by_x_y(self, x_tile, y_tile) == (y_tile * self.x_tiles) + x_tile

\* Option::None of get_cell.
NoCell == -1

get_cell(self, p) ==
  LET x_tile == FloorTile(p[1])
      y_tile == FloorTile(p[2])
  IN IF 0 <= x_tile /\ x_tile < self.x_tiles /\ 0 <= y_tile /\ y_tile < self.y_tiles
     THEN get_cell_by_x_y(self, x_tile, y_tile)
     ELSE NoCell

get_unlimited_cell(p) == <<FloorTile(p[1]), FloorTile(p[2])>>

\* mutant: the entity is put into the tile of the origin, whatever the point
table_insert_point_first(self, ent, p) ==
  IF get_cell(self, p) # NoCell
  THEN [self EXCEPT !.table[0] = @ \cup {ent}]
  ELSE self

\* SpatialHashTable::insert_point, p being p.to_actual(vp).
table_insert_point(self, ent, p) ==
  LET id == get_cell(self, p) IN
  IF id # NoCell
  THEN [self EXCEPT !.table[id] = @ \cup {ent}]
  ELSE self

\* mutant: the loop stops after the first tile that held the entity
remove_from_all_first(self, ent) ==
  [self EXCEPT !.table =
     [i \in DOMAIN self.table |->
        IF \E j \in DOMAIN self.table : j < i /\ ent \in self.table[j]
        THEN self.table[i] ELSE self.table[i] \ {ent}]]

remove_from_all(self, ent) ==
  [self EXCEPT !.table = [i \in DOMAIN self.table |-> self.table[i] \ {ent}]]

\* clear: every tile is emptied.
clear(self) ==
  [self EXCEPT !.table = [i \in DOMAIN self.table |-> {}]]

\* mutant: the second column is taken for the left border too
is_left_border_wide(self, tile) == tile % self.x_tiles <= 1
is_left_border(self, tile) == tile % self.x_tiles = 0
is_right_border(self, tile) == tile % self.x_tiles = self.x_tiles - 1
\* mutant: the first row is not taken for the top border
is_top_border_never(self, tile) == tile \div self.x_tiles < 0
is_top_border(self, tile) == tile \div self.x_tiles < 1
is_bottom_border(self, tile) == tile \div self.x_tiles >= self.y_tiles - 1

\* mutant: the four diagonal pushes are left out
NeighborTilesNoDiagonals(self, center_tile) ==
  LET Push(c, t) == IF c THEN <<t>> ELSE <<>>
  IN <<center_tile>>
     \o Push(~is_left_border(self, center_tile), center_tile - 1)
     \o Push(~is_right_border(self, center_tile), center_tile + 1)
     \o Push(~is_top_border(self, center_tile), center_tile - self.x_tiles)
     \o Push(~is_bottom_border(self, center_tile), center_tile + self.x_tiles)

\* The tiles get_neighbor_entities_of_point pushes, in the order of the pushes.
NeighborTiles(self, center_tile) ==
  LET left == ~is_left_border(self, center_tile)
      right == ~is_right_border(self, center_tile)
      top == ~is_top_border(self, center_tile)
      bottom == ~is_bottom_border(self, center_tile)
      Push(c, t) == IF c THEN <<t>> ELSE <<>>
  IN <<center_tile>>
     \o Push(left, center_tile - 1)
     \o Push(right, center_tile + 1)
     \o Push(top, center_tile - self.x_tiles)
     \o Push(bottom, center_tile + self.x_tiles)
     \o Push(left /\ top, center_tile - self.x_tiles - 1)
     \o Push(left /\ bottom, center_tile + self.x_tiles - 1)
     \o Push(right /\ top, center_tile - self.x_tiles + 1)
     \o Push(right /\ bottom, center_tile + self.x_tiles + 1)

\* The orders in which the iterator of a tile's HashSet may yield its
\* elements: the iteration order of a HashSet is unspecified, every order is
\* possible.
HashSetOrders(S) ==
  {s \in [1..Cardinality(S) -> S] : \A i, j \in DOMAIN s : s[i] = s[j] => i = j}

\* .map(|tile| self.table[tile].clone()).flatten(): the tiles in the order
\* given, each in an order of its HashSet; the lists that may result.
RECURSIVE Flatten(_, _)
Flatten(self, tiles) ==
  IF tiles = <<>> THEN {<<>>}
  ELSE {first \o rest : first \in HashSetOrders(self.table[Head(tiles)]),
                        rest \in Flatten(self, Tail(tiles))}

\* .unique(): the first occurrence of each element is kept.
RECURSIVE Unique(_)
Unique(s) ==
  IF s = <<>> THEN <<>>
  ELSE LET init == Unique(SubSeq(s, 1, Len(s) - 1))
           last == s[Len(s)]
       IN IF \E i \in DOMAIN init : init[i] = last THEN init ELSE Append(init, last)

\* Option<Vec<T>>
NoList == [some |-> FALSE, list |-> <<>>]
SomeList(l) == [some |-> TRUE, list |-> l]

\* mutant: the tile of the point itself is not read
get_neighbor_entities_skip_center(self, p) ==
  LET center_tile == get_cell(self, p) IN
  IF center_tile # NoCell
  THEN {SomeList(Unique(l)) :
          l \in Flatten(self, Tail(NeighborTiles(self, center_tile)))}
  ELSE {NoList}

\* get_neighbor_entities_of_point, p being p.to_actual(vp): the results the
\* call may return (one for each order of the HashSets read).
get_neighbor_entities_of_point(self, p) ==
  LET center_tile == get_cell(self, p) IN
  IF center_tile # NoCell
  THEN {SomeList(Unique(l)) : l \in Flatten(self, NeighborTiles(self, center_tile))}
  ELSE {NoList}

\* mutant: the height of the rectangle is not added
get_neighbor_entities_of_aabb_flat(self, aabb) ==
  LET min == get_unlimited_cell(<<aabb.x, aabb.y>>)
      max == get_unlimited_cell(<<aabb.x + aabb.width, aabb.y>>)
  IN UNION {self.table[get_cell_by_x_y(self, t[1], t[2])] :
              t \in {u \in (min[1]..max[1]) \X (min[2]..max[2]) :
                       /\ 0 <= u[1] /\ u[1] < self.x_tiles
                       /\ 0 <= u[2] /\ u[2] < self.y_tiles}}

\* get_neighbor_entities_of_aabb, aabb = [x, y, width, height] in actual
\* space: the HashSet it returns.
get_neighbor_entities_of_aabb(self, aabb) ==
  LET min == get_unlimited_cell(<<aabb.x, aabb.y>>)
      max == get_unlimited_cell(<<aabb.x + aabb.width, aabb.y + aabb.height>>)
  IN UNION {self.table[get_cell_by_x_y(self, t[1], t[2])] :
              t \in {u \in (min[1]..max[1]) \X (min[2]..max[2]) :
                       /\ 0 <= u[1] /\ u[1] < self.x_tiles
                       /\ 0 <= u[2] /\ u[2] < self.y_tiles}}

\* The elements of a list.
Elems(l) == {l[i] : i \in DOMAIN l}

\* ---- insert_line.  The f64 values of the walk are kept exactly: a finite
\* x is an integer count of 1/den pixels (den = |p2.y - p1.y|, or 1 for a
\* horizontal segment), and the non-finite values a division by 0.0 yields
\* are kept as such.
Abs(v) == IF v < 0 THEN -v ELSE v
Fin(v) == [k |-> "fin", v |-> v]
NegInf == [k |-> "ninf", v |-> 0]
PosInf == [k |-> "pinf", v |-> 0]
NaN == [k |-> "nan", v |-> 0]

\* f64 +
AddF(a, b) ==
  IF a.k = "nan" \/ b.k = "nan" THEN NaN
  ELSE IF a.k = "fin" /\ b.k = "fin" THEN Fin(a.v + b.v)
  ELSE IF a.k = "fin" THEN b
  ELSE IF b.k = "fin" THEN a
  ELSE IF a.k = b.k THEN a
  ELSE NaN

\* Stand-ins for i64::MIN and i64::MAX, the results of a saturating cast: all
\* that is used of them is that they lie outside every range of tiles.
I64_MIN == -(2^30)
I64_MAX == 2^30

\* Truncation towards zero of n / d, d > 0.
Trunc(n, d) == IF n >= 0 THEN n \div d ELSE -((-n) \div d)

\* (x / TILE_SIZE) as i64, x in units of 1/den: the cast truncates, saturates
\* at the infinities and gives 0 for NaN.  The f64 sum that x stands for is
\* the exact value up to rounding: where the exact value is on a tile
\* boundary the sum can fall just short of it, into the tile before.
ToTiles(x, den) ==
  CASE x.k = "fin" ->
         IF x.v > 0 /\ x.v % (TILE_SIZE * den) = 0
         THEN {Trunc(x.v, TILE_SIZE * den) - 1, Trunc(x.v, TILE_SIZE * den)}
         ELSE {Trunc(x.v, TILE_SIZE * den)}
    [] x.k = "ninf" -> {I64_MIN}
    [] x.k = "pinf" -> {I64_MAX}
    [] OTHER -> {0}

\* tile_offset_y / dir.y.abs() * dir.x, in units of 1/den.  dir is p2 - p1
\* scaled to length 0.000001, so dir.x / |dir.y| = dx / |dy|; a horizontal
\* segment has dir.y = 0.0 and dir.x > 0.0, and the quotient is not finite.
NextXDiff(tile_offset_y, dx, dy) ==
  IF dy # 0 THEN Fin(tile_offset_y * dx)
  ELSE IF tile_offset_y < 0 THEN NegInf
  ELSE IF tile_offset_y > 0 THEN PosInf
  ELSE NaN

\* The tile coordinate of v + d for a step d too short to reach the next
\* integer (p1 + dir): that of v, except that a v on a tile boundary moved
\* backwards lies in the tile before.
NudgedTile(v, d) ==
  IF d < 0 /\ v % TILE_SIZE = 0 THEN FloorTile(v) - 1 ELSE FloorTile(v)

\* The inner for loop of one row: tile_x runs from lo to hi and is written
\* when tile_x <= end_x_tile and tile_x < x_tiles.  A negative tile_x passes
\* that test and, cast to usize, indexes far outside the table: the assert!
\* fails and the call panics before anything of the row is written.
RowPanics(self, lo, hi, end_x_tile) ==
  lo <= hi /\ lo < 0 /\ lo <= end_x_tile /\ lo < self.x_tiles

RowTiles(self, lo, hi, end_x_tile, y_tile) ==
  {get_cell_by_x_y(self, tile_x, y_tile) :
     tile_x \in {t \in 0..(self.x_tiles - 1) :
                   lo <= t /\ t <= hi /\ t <= end_x_tile}}

InsertInto(self, tiles, ent) ==
  [self EXCEPT !.table = [i \in DOMAIN self.table |->
                            IF i \in tiles THEN self.table[i] \cup {ent}
                            ELSE self.table[i]]]

\* The while loop of the walk: the results it can end with.  s = [self,
\* curr_x, curr_y, curr_x_tile, curr_y_tile]; c = [ent, dx, dy, den,
\* end_x_tile].
RECURSIVE LineWalk(_, _)
LineWalk(s, c) ==
  IF ~(s.curr_x_tile <= c.end_x_tile
       /\ 0 <= s.curr_y_tile /\ s.curr_y_tile < s.self.y_tiles)
  THEN {[self |-> s.self, panicked |-> FALSE]}
  ELSE
    LET yi == IF c.dy < 0 THEN -1 ELSE 1
        next_y == (s.curr_y_tile + (IF c.dy > 0 THEN 1 ELSE 0)) * TILE_SIZE
        tile_offset_y == (next_y - s.curr_y) * yi
        next_x == AddF(s.curr_x, NextXDiff(tile_offset_y, c.dx, c.dy))
        Row(next_x_tile) ==
          IF RowPanics(s.self, s.curr_x_tile, next_x_tile, c.end_x_tile)
          THEN {[self |-> s.self, panicked |-> TRUE]}
          ELSE LineWalk(
                 [self |-> InsertInto(s.self,
                                      RowTiles(s.self, s.curr_x_tile, next_x_tile,
                                               c.end_x_tile, s.curr_y_tile),
                                      c.ent),
                  curr_x |-> next_x,
                  curr_y |-> next_y,
                  curr_x_tile |-> next_x_tile,
                  curr_y_tile |-> s.curr_y_tile + yi],
                 c)
    IN UNION {Row(next_x_tile) : next_x_tile \in ToTiles(next_x, c.den)}

\* SpatialHashTable::insert_line from `if let Some((p1, p2))` on: <<q1, q2>>
\* is the pair actual.intersect(aabb) returned, two different points.  The
\* results the call can have: the table, and whether the call panicked.
table_insert_line(self, ent, q1, q2) ==
  LET p1 == IF q1[1] > q2[1] THEN q2 ELSE q1
      p2 == IF q1[1] > q2[1] THEN q1 ELSE q2
      dx == p2[1] - p1[1]
      dy == p2[2] - p1[2]
      init_x_tile == NudgedTile(p1[1], dx)
      init_y_tile == NudgedTile(p1[2], dy)
      end_x_tile == get_unlimited_cell(p2)[1]
      end_y_tile == get_unlimited_cell(p2)[2]
  IN IF init_x_tile = end_x_tile /\ init_x_tile >= 0 /\ init_x_tile < self.x_tiles
     THEN LET lo == IF init_y_tile <= end_y_tile THEN init_y_tile ELSE end_y_tile
              hi == IF init_y_tile <= end_y_tile THEN end_y_tile ELSE init_y_tile
              rows == {i \in 0..(self.y_tiles - 1) : lo <= i /\ i < hi + 1}
          IN {[self |-> InsertInto(self,
                                   {get_cell_by_x_y(self, init_x_tile, i) : i \in rows},
                                   ent),
               panicked |-> FALSE]}
     ELSE LET den == IF dy = 0 THEN 1 ELSE Abs(dy) IN
          LineWalk([self |-> self,
                    curr_x |-> Fin(p1[1] * den),
                    curr_y |-> p1[2],
                    curr_x_tile |-> init_x_tile,
                    curr_y_tile |-> init_y_tile],
                   [ent |-> ent, dx |-> dx, dy |-> dy, den |-> den,
                    end_x_tile |-> end_x_tile])

\* ---- insert_circle.  Distances are compared by their squares.
Min2(a, b) == IF a < b THEN a ELSE b
Max2(a, b) == IF a > b THEN a ELSE b
Clamp(v, lo, hi) == IF v < lo THEN lo ELSE IF v > hi THEN hi ELSE v

\* AABB::get_closest_point_to of the tile in column i and row j.
ClosestPoint(i, j, center) ==
  <<Clamp(center[1], i * TILE_SIZE, (i + 1) * TILE_SIZE),
    Clamp(center[2], j * TILE_SIZE, (j + 1) * TILE_SIZE)>>

\* AABB::get_furthest_point_to of the tile in column i and row j.
FurthestPoint(i, j, center) ==
  <<IF 2 * center[1] < (2 * i + 1) * TILE_SIZE
    THEN (i + 1) * TILE_SIZE ELSE i * TILE_SIZE,
    IF 2 * center[2] < (2 * j + 1) * TILE_SIZE
    THEN (j + 1) * TILE_SIZE ELSE j * TILE_SIZE>>

SqDist(u, v) == (u[1] - v[1]) * (u[1] - v[1]) + (u[2] - v[2]) * (u[2] - v[2])

\* The <<i, j>> of the two for loops of insert_circle: j runs over
\* top.max(0)..(bottom.min(x_tiles) + 1), i over
\* left.max(0)..(right.min(y_tiles) + 1).
CircleRange(self, left, top, right, bottom) ==
  (Max2(left, 0)..Min2(right, self.y_tiles))
    \X (Max2(top, 0)..Min2(bottom, self.x_tiles))

\* SpatialHashTable::insert_circle, center and radius being the circle's
\* center and radius in actual space.
table_insert_circle(self, ent, center, radius) ==
  LET lt == get_unlimited_cell(<<center[1] - radius, center[2] - radius>>)
      rb == get_unlimited_cell(<<center[1] + radius, center[2] + radius>>)
      hit == {t \in CircleRange(self, lt[1], lt[2], rb[1], rb[2]) :
                /\ 0 <= t[1] /\ t[1] < self.x_tiles
                /\ 0 <= t[2] /\ t[2] < self.y_tiles
                /\ SqDist(ClosestPoint(t[1], t[2], center), center) <= radius * radius
                /\ SqDist(ClosestPoint(t[1], t[2], center), center)
                     <= SqDist(FurthestPoint(t[1], t[2], center), center)}
  IN InsertInto(self, {get_cell_by_x_y(self, t[1], t[2]) : t \in hit}, ent)


\* ------------------------------------------------------------ SenderSystem
\* (app/electron/native/src/systems/sender_system.rs.)  The world the system
\* reads: the entities alive, the storages of the four screen shapes and of
\* their styles (the ids that have the component), and for each storage the
\* ComponentEvents written since the system last read, in order; the marker
\* events likewise.  An entity is its id: the BitSets of run hold ids.  A
\* message is [type, kind, ent]; the shapes and styles the messages carry are
\* left out.
KindOrder == <<"Point", "Line", "Circle", "Rectangle">>
ShapeKinds == Elems(KindOrder)

ComponentEvent(tag, id) == [tag |-> tag, id |-> id]
MarkerEvent(tag, ent) == [tag |-> tag, ent |-> ent]
RenderUpdateEvent(type, kind, ent) == [type |-> type, kind |-> kind, ent |-> ent]

\* The BitSet the loop over a channel fills for one variant of ComponentEvent.
\* Only Modified is kept from a style channel.
EventIds(events, tag) ==
  {events[i].id : i \in {j \in DOMAIN events : events[j].tag = tag}}

\* The ids of a BitSet in the order its join yields them: ascending.
RECURSIVE Ascending(_)
Ascending(S) ==
  IF S = {} THEN <<>>
  ELSE LET m == CHOOSE x \in S : \A y \in S : x <= y
       IN <<m>> \o Ascending(S \ {m})

\* mutant: a message for every event read, not for every id of the BitSet
JoinPerEvent(type, kind, present, events, tag) ==
  LET hits == SelectSeq(events, LAMBDA ev : ev.tag = tag /\ ev.id \in present)
  IN [i \in DOMAIN hits |-> RenderUpdateEvent(type, kind, hits[i].id)]

\* for (ent, ..) in (&entities, &storage.., &bitset).join() { send(..) }: one
\* message for each id that is alive, has the components and is in the
\* BitSet, by ascending id.
Join(type, kind, present, events, tag) ==
  LET ids == Ascending(present \cap EventIds(events, tag))
  IN [i \in DOMAIN ids |-> RenderUpdateEvent(type, kind, ids[i])]

\* "Do all the insert": points, lines, circles, rectangles.
Inserts(w) ==
  LET Of(k) == Join("Inserted", k, w.alive \cap w.shapes[k] \cap w.styles[k],
                    w.shape_events[k], "Inserted")
  IN Of(KindOrder[1]) \o Of(KindOrder[2]) \o Of(KindOrder[3]) \o Of(KindOrder[4])

\* "Do all the modify": for each kind the shapes, then the styles.
Modifies(w) ==
  LET Of(k) == Join("Updated", k, w.alive \cap w.shapes[k],
                    w.shape_events[k], "Modified")
               \o Join("UpdatedStyle", k, w.alive \cap w.styles[k],
                       w.style_events[k], "Modified")
  IN Of(KindOrder[1]) \o Of(KindOrder[2]) \o Of(KindOrder[3]) \o Of(KindOrder[4])

\* "Do all the removals": the one BitSet removed is filled from the four
\* shape channels.
Removals(w) ==
  Join("RemovedEntity", "", w.alive,
       w.shape_events[KindOrder[1]] \o w.shape_events[KindOrder[2]]
         \o w.shape_events[KindOrder[3]] \o w.shape_events[KindOrder[4]],
       "Removed")

\* "Then deal with select update": one message for each Select and Deselect
\* event, as they are read.
RECURSIVE Markers(_)
Markers(events) ==
  IF events = <<>> THEN <<>>
  ELSE LET ev == Head(events) IN
       (CASE ev.tag = "Deselect" -> <<RenderUpdateEvent("DeselectedEntity", "", ev.ent)>>
          [] ev.tag = "Select" -> <<RenderUpdateEvent("SelectedEntity", "", ev.ent)>>
          [] OTHER -> <<>>)
       \o Markers(Tail(events))

\* mutant: the removals are sent before the modifications
sender_run_removals_first(w) ==
  IF w.registered
  THEN Inserts(w) \o Removals(w) \o Modifies(w) \o Markers(w.marker_events)
  ELSE <<>>

\* SenderSystem::run: the messages it sends, in order.  Without readers
\* (setup has not run) nothing is read and nothing is sent.
sender_run(w) ==
  IF w.registered
  THEN Inserts(w) \o Modifies(w) \o Removals(w) \o Markers(w.marker_events)
  ELSE <<>>

\* -------------------------------------------------------------- InputState
\* (core/foundation/src/resources/input_state.rs.)  ActiveState is the record
\* [present, pressed, just_changed]; present tells the entries of the
\* Keyboard's HashMap from the keys it has no entry for, and is TRUE for the
\* mouse buttons and the focus.
ActiveState(pressed, just_changed) ==
  [present |-> TRUE, pressed |-> pressed, just_changed |-> just_changed]
DefaultActiveState == ActiveState(FALSE, FALSE)
NoActiveState == [present |-> FALSE, pressed |-> FALSE, just_changed |-> FALSE]

\* mutant: every call marks the state as changed
ActiveState_set_always(state, next) == ActiveState(next, TRUE)

ActiveState_set(state, next) ==
  IF state.pressed # next THEN ActiveState(next, TRUE) ELSE state

ActiveState_is_activated(state) == state.pressed
ActiveState_just_activated(state) == state.pressed /\ state.just_changed
ActiveState_just_deactivated(state) == ~state.pressed /\ state.just_changed

\* mutant: the reset releases the key or button as well
ActiveState_reset_released(state) == ActiveState(FALSE, FALSE)

ActiveState_reset_relative_data(state) == [state EXCEPT !.just_changed = FALSE]

\* The keys the systems look at, and one they do not.
Keys ==
  {"S", "P", "L", "C", "Backslash", "LShift", "RShift", "LCtrl", "RCtrl",
   "LCommand", "RCommand", "A"}

\* Keyboard::default(): no entry.
DefaultKeyboard == [k \in Keys |-> NoActiveState]

Keyboard_set(keys, key, pressed) ==
  IF keys[key].present
  THEN [keys EXCEPT ![key] = ActiveState_set(@, pressed)]
  ELSE IF pressed THEN [keys EXCEPT ![key] = ActiveState(TRUE, TRUE)]
       ELSE keys

Keyboard_is_activated(keys, key) ==
  IF keys[key].present THEN keys[key].pressed ELSE FALSE

Keyboard_just_activated(keys, key) ==
  IF keys[key].present THEN ActiveState_just_activated(keys[key]) ELSE FALSE

Keyboard_just_deactivated(keys, key) ==
  IF keys[key].present THEN ActiveState_just_deactivated(keys[key]) ELSE FALSE

is_shift_activated(keys) ==
  Keyboard_is_activated(keys, "LShift") \/ Keyboard_is_activated(keys, "RShift")

\* macos: the value of cfg!(target_os = "macos") in the build.
is_command_activated(keys, macos) ==
  IF macos
  THEN Keyboard_is_activated(keys, "LCommand")
       \/ Keyboard_is_activated(keys, "RCommand")
  ELSE Keyboard_is_activated(keys, "LCtrl") \/ Keyboard_is_activated(keys, "RCtrl")

Keyboard_reset_relative_data(keys) ==
  [k \in Keys |-> IF keys[k].present
                  THEN ActiveState_reset_relative_data(keys[k]) ELSE keys[k]]

\* InputState::default(); the time of mouse_left_button_last_pressed is left
\* out: 0 is None, 1 is Some.
DefaultInputState ==
  [mouse_left_button |-> DefaultActiveState,
   mouse_right_button |-> DefaultActiveState,
   is_mouse_left_button_dragging |-> FALSE,
   mouse_left_button_last_pressed |-> 0,
   mouse_abs_pos |-> <<0, 0>>,
   mouse_rel_movement |-> <<0, 0>>,
   rel_scroll |-> <<0, 0>>,
   in_focus |-> DefaultActiveState,
   keyboard |-> DefaultKeyboard]

InputState_reset_relative_data(self) ==
  [self EXCEPT
     !.mouse_left_button = ActiveState_reset_relative_data(@),
     !.mouse_right_button = ActiveState_reset_relative_data(@),
     !.mouse_rel_movement = <<0, 0>>,
     !.in_focus = ActiveState_reset_relative_data(@),
     !.rel_scroll = <<0, 0>>,
     !.keyboard = Keyboard_reset_relative_data(@)]

\* (src/systems/interactions/change_tool_via_keyboard.rs.)
\* mutant: every key that is just activated writes its event
change_tool_run_all(input_state) ==
  LET Of(key, tool) ==
        IF Keyboard_just_activated(input_state.keyboard, key)
        THEN <<tool>> ELSE <<>>
  IN Of("S", "Select") \o Of("P", "Point") \o Of("L", "Line") \o Of("C", "Circle")

\* ChangeToolViaKeyboard::run: the ToolChangeEvents it writes.
change_tool_run(input_state) ==
  IF Keyboard_just_activated(input_state.keyboard, "S") THEN <<"Select">>
  ELSE IF Keyboard_just_activated(input_state.keyboard, "P") THEN <<"Point">>
  ELSE IF Keyboard_just_activated(input_state.keyboard, "L") THEN <<"Line">>
  ELSE IF Keyboard_just_activated(input_state.keyboard, "C") THEN <<"Circle">>
  ELSE <<>>

\* (core/ui/src/systems/interactions/geometry/line/
\* create_perpendicular_via_keyboard.rs.)
InsertPerpendicular ==
  [command |-> "LineInsert(InsertPerpendicularFromSelection)",
   event_id |-> "None"]

\* mutant: Backslash only has to be held
create_perpendicular_run_held(input_state, macos) ==
  LET cmd == is_command_activated(input_state.keyboard, macos)
      shift == is_shift_activated(input_state.keyboard)
      backslash == Keyboard_is_activated(input_state.keyboard, "Backslash")
  IN IF cmd /\ shift /\ backslash THEN <<InsertPerpendicular>> ELSE <<>>

\* CreatePerpendicularViaKeyboard::run: the CommandEvents it writes.
create_perpendicular_run(input_state, macos) ==
  LET cmd == is_command_activated(input_state.keyboard, macos)
      shift == is_shift_activated(input_state.keyboard)
      backslash == Keyboard_just_activated(input_state.keyboard, "Backslash")
  IN IF cmd /\ shift /\ backslash THEN <<InsertPerpendicular>> ELSE <<>>

\* ------------------------------------------------------------------ state
VARIABLES
  channel,        \* GeometryEventChannel: every event written so far, in order
  reader,         \* geometry_event_reader: NoReader, or the events it has read
  registered_at,  \* history: length of the channel when the reader registered
  applied,        \* history: channel positions run has handled, in order
  graph,          \* the DependencyGraph resource
  op,             \* history: the graph operation called last, with its arguments
  seed,           \* recompute_order: the seed set of the traversal
  queue,          \* recompute_order: entities waiting to be visited
  visited,        \* recompute_order: the visited set
  order,          \* recompute_order: the result built so far
  pc,             \* recompute_order: "idle", "running", "done" or "failed"
  hash,           \* the SpatialHashTable resource
  viewport,       \* the Viewport resource: its actual width and height
  hop,            \* history: the call made last on the table, with its arguments
  hsteps,         \* history: calls made on the table since init_viewport
  phase,          \* frame: what is due next: "graph", "order", "solve", "index",
                  \*   "render" or "author"
  changed,        \* solver: the set S of changed entities of this frame
  degenerate,     \* solver input: entities whose construction is degenerate now
  resolved,       \* solver: the resolved-geometry store
  invalid,        \* solver: the entities marked invalid
  recomputed,     \* solver: the entities recomputed so far in this pass, in order
  indexed,        \* spatial index: the entities it holds
  seen,           \* history: what the readers saw when they last read
  geom,           \* resolution of one entity: its inputs and its result
  ecs,            \* the entities, their screen shapes and styles, the events
                  \*   the SenderSystem has not read yet, and what it sent
  input           \* the InputState resource and what the keyboard systems wrote

vars == <<channel, reader, registered_at, applied, graph, op,
          seed, queue, visited, order, pc, hash, viewport, hop, hsteps,
          phase, changed, degenerate, resolved, invalid, recomputed, indexed,
          seen, geom, ecs, input>>
managerVars == <<channel, reader, registered_at, applied>>
NoOp == [name |-> "none", a |-> 0, b |-> 0]
orderVars == <<seed, queue, visited, order, pc>>
hashVars == <<hash, viewport, hop, hsteps>>
solverVars ==
  <<phase, changed, degenerate, resolved, invalid, recomputed, indexed, seen>>
uiVars == <<ecs, input>>
extVars == <<hashVars, solverVars, geom, uiVars>>
\* name: the call; ent, p, q: its entity and points; panicked: the call did not
\* return; follows (remove_from_all only): the call before was insert_point
\* for the same entity, and p is still that call's point.  For init_viewport
\* q[1] is the number of entities the table held before the call, for the
\* remove_from_all of RemoveSpec the number of tiles that held ent before it.
NoHop == [name |-> "none", ent |-> 0, p |-> <<0, 0>>, q |-> <<0, 0>>,
          panicked |-> FALSE, follows |-> FALSE]
NoViewport == [w |-> 0, h |-> 0]

\* Default::default(): geometry_event_reader is None.
NoReader == -1

\* ------------------------------------------------------- authoring layer
\* The symbolic definition an entity carries, NoDef when it has none.
NoDef == Sym("None", <<>>)

GeometryEvent(kind, ent, sym) == [kind |-> kind, ent |-> ent, sym |-> sym]

WorldStep(w, event) ==
  CASE event.kind = "Inserted" -> [w EXCEPT ![event.ent] = event.sym]
    [] event.kind = "Removed" -> [w EXCEPT ![event.ent] = NoDef]
    [] OTHER -> w

\* The definitions that are live after a sequence of events.
RECURSIVE WorldAfter(_, _)
WorldAfter(w, events) ==
  IF events = <<>> THEN w
  ELSE WorldAfter(WorldStep(w, Head(events)), Tail(events))

EmptyWorld == [e \in Entities |-> NoDef]
World == WorldAfter(EmptyWorld, channel)

Live(w) == {e \in DOMAIN w : w[e] # NoDef}
PointsOf(w) == {e \in Live(w) : w[e].tag \in PointTags}
LinesOf(w) == {e \in Live(w) : w[e].tag \in LineTags}
CirclesOf(w) == {e \in Live(w) : w[e].tag \in CircleTags}

\* The definitions a new entity can be given in world w: every variant, with
\* entities of the kind the variant asks for, all of them live.
NewSyms(w) ==
  {Sym("Fixed", <<>>), Sym("Free", <<>>)}
  \cup {Sym(t, <<a, b>>) :
          t \in {"MidPoint", "Straight", "Ray", "Segment", "CenterRadius"},
          a \in PointsOf(w), b \in PointsOf(w)}
  \cup {Sym("OnLine", <<l>>) : l \in LinesOf(w)}
  \cup {Sym("LineLineIntersect", <<l1, l2>>) : l1 \in LinesOf(w), l2 \in LinesOf(w)}
  \cup {Sym(t, <<l, p>>) :
          t \in {"Parallel", "Perpendicular"}, l \in LinesOf(w), p \in PointsOf(w)}
  \cup {Sym("OnCircle", <<c>>) : c \in CirclesOf(w)}
  \cup {Sym("CircleLineIntersect", <<c, l>>) : c \in CirclesOf(w), l \in LinesOf(w)}
  \cup {Sym("CircleCircleIntersect", <<c1, c2>>) :
          c1 \in CirclesOf(w), c2 \in CirclesOf(w)}

\* The entity the world hands out next: the lowest id that is not live.
NewEntity(w) == CHOOSE e \in DOMAIN w \ Live(w) : \A f \in DOMAIN w \ Live(w) : e <= f

\* ----------------------------------------------------------------- actions
\* The table as Default::default() leaves it; no viewport yet.
HashInit ==
  /\ hash = DefaultTable
  /\ viewport = NoViewport
  /\ hop = NoHop
  /\ hsteps = 0

\* An entity without a resolved value.
NoValue == "none"

\* What the readers saw when they last read: the phase the frame was in, and
\* how many entities of the pass were still to be recomputed.
NotSeen == [phase |-> "none", pending |-> 0]

\* Nothing inserted, nothing solved.
SolverIdle ==
  /\ phase = "author"
  /\ changed = {}
  /\ degenerate = {}
  /\ resolved = [e \in Entities |-> NoValue]
  /\ invalid = {}
  /\ recomputed = <<>>
  /\ indexed = {}
  /\ seen = NotSeen

\* No entity is being resolved on its own.
NoGeom == [kind |-> "none"]

\* The world before anything is created: no entity, no component, no event,
\* the readers of the SenderSystem not registered.  sent: the messages of the
\* last run; read: the number of component events that run read.  History,
\* kept when remembers is set: announced, the entities an Inserted message
\* was sent for in the runs before the last.
NoWorld ==
  [alive |-> {},
   shapes |-> [k \in ShapeKinds |-> {}],
   styles |-> [k \in ShapeKinds |-> {}],
   shape_events |-> [k \in ShapeKinds |-> <<>>],
   style_events |-> [k \in ShapeKinds |-> <<>>],
   marker_events |-> <<>>,
   registered |-> FALSE,
   sent |-> <<>>,
   read |-> 0,
   remembers |-> FALSE,
   announced |-> {}]

\* The InputState resource of a build (macos: cfg!(target_os = "macos")).
\* call: the call made last; tools and commands: what the last run of
\* ChangeToolViaKeyboard and of CreatePerpendicularViaKeyboard wrote.
\* History: down, the keys the last Keyboard::set of each left pressed; ever,
\* the keys a set has pressed at some time; changed, the keys a set has
\* pressed or released since the last reset_relative_data; perp, "wrote"
\* after a run of
\* CreatePerpendicularViaKeyboard that wrote, "reset" once
\* reset_relative_data was called after it, "none" when Backslash was
\* released since or no run wrote.
IdleInput(macos) ==
  [state |-> DefaultInputState, macos |-> macos, call |-> "none",
   tools |-> <<>>, commands |-> <<>>, down |-> {}, ever |-> {},
   changed |-> {}, perp |-> "none"]

UiIdle ==
  /\ ecs = NoWorld
  /\ input = IdleInput(FALSE)

coreVars ==
  <<managerVars, graph, op, orderVars, hashVars, solverVars, geom>>

ExtInit ==
  /\ HashInit
  /\ SolverIdle
  /\ geom = NoGeom
  /\ UiIdle

Init ==
  /\ channel = <<>>
  /\ reader = NoReader
  /\ registered_at = 0
  /\ applied = <<>>
  /\ graph = EmptyGraph
  /\ op = NoOp
  /\ seed = {}
  /\ queue = <<>>
  /\ visited = {}
  /\ order = <<>>
  /\ pc = "idle"
  /\ ExtInit

\* The authoring layer creates an entity and writes Inserted for it.
EmitInserted ==
  /\ Len(channel) < MaxEvents
  /\ Live(World) # Entities
  /\ \E sym \in NewSyms(World) :
       channel' = Append(channel, GeometryEvent("Inserted", NewEntity(World), sym))
  /\ UNCHANGED <<reader, registered_at, applied, graph, op>>
  /\ UNCHANGED orderVars
  /\ UNCHANGED extVars

\* The authoring layer deletes an entity and writes Removed with the
\* definition the entity had.
EmitRemoved ==
  /\ Len(channel) < MaxEvents
  /\ \E e \in Live(World) :
       channel' = Append(channel, GeometryEvent("Removed", e, World[e]))
  /\ UNCHANGED <<reader, registered_at, applied, graph, op>>
  /\ UNCHANGED orderVars
  /\ UNCHANGED extVars

\* Any other geometry event: a Free point is edited in place.
EmitModified ==
  /\ Len(channel) < MaxEvents
  /\ \E e \in Live(World) :
       /\ World[e].tag = "Free"
       /\ channel' = Append(channel, GeometryEvent("Modified", e, World[e]))
  /\ UNCHANGED <<reader, registered_at, applied, graph, op>>
  /\ UNCHANGED orderVars
  /\ UNCHANGED extVars

\* setup: register the reader; it yields the events written from now on.
ManagerSetup ==
  /\ reader = NoReader
  /\ reader' = Len(channel)
  /\ registered_at' = Len(channel)
  /\ UNCHANGED <<channel, applied, graph, op>>
  /\ UNCHANGED orderVars
  /\ UNCHANGED extVars

\* mutant: the read ignores the reader's position and yields the whole channel
ReadFromStart(ch, r) == [i \in 1..Len(ch) |-> i]

\* geometry_event_channel.read(reader): the positions written since the
\* reader's last read, oldest first.
ReadPositions(ch, r) == [i \in 1..(Len(ch) - r) |-> r + i]

\* run: handle every event the reader yields; nothing without a reader.
ManagerRun ==
  /\ IF reader = NoReader
     THEN UNCHANGED <<reader, applied, graph>>
     ELSE LET read == ReadPositions(channel, reader) IN
          /\ graph' = HandleEvents(graph, [i \in DOMAIN read |-> channel[read[i]]])
          /\ applied' = applied \o read
          /\ reader' = Len(channel)
  /\ UNCHANGED <<channel, registered_at, op>>
  /\ UNCHANGED orderVars
  /\ UNCHANGED extVars

Next ==
  \/ EmitInserted
  \/ EmitRemoved
  \/ EmitModified
  \/ ManagerSetup
  \/ ManagerRun

Spec == Init /\ [][Next]_vars

\* ------------------------------------------- a construction already in place
\* The manager at work on a construction: two free points and two entities
\* drawn through them have been inserted, and run has handled their events.
\* From there the authoring layer adds, edits and removes entities; the
\* intersection points find two different lines, a circle and a line, or two
\* different circles to name.
LineAndCircle ==
  <<GeometryEvent("Inserted", 1, Sym("Free", <<>>)),
    GeometryEvent("Inserted", 2, Sym("Free", <<>>)),
    GeometryEvent("Inserted", 3, Sym("Straight", <<1, 2>>)),
    GeometryEvent("Inserted", 4, Sym("CenterRadius", <<1, 2>>))>>

TwoLines ==
  <<GeometryEvent("Inserted", 1, Sym("Free", <<>>)),
    GeometryEvent("Inserted", 2, Sym("Free", <<>>)),
    GeometryEvent("Inserted", 3, Sym("Straight", <<1, 2>>)),
    GeometryEvent("Inserted", 4, Sym("Perpendicular", <<3, 1>>))>>

TwoCircles ==
  <<GeometryEvent("Inserted", 1, Sym("Free", <<>>)),
    GeometryEvent("Inserted", 2, Sym("Free", <<>>)),
    GeometryEvent("Inserted", 3, Sym("CenterRadius", <<1, 2>>)),
    GeometryEvent("Inserted", 4, Sym("CenterRadius", <<2, 1>>))>>

Constructions == {LineAndCircle, TwoLines, TwoCircles}

\* Every construction has this many events, one per entity.
ConstructionLen == Len(LineAndCircle)

\* The entity ids in use: those of the construction and those added to it.
VariantEntities == 1..(ConstructionLen + MaxDerived)

NoEntities == [e \in VariantEntities |-> NoDef]
VariantWorld == WorldAfter(NoEntities, channel)

\* The reader registered before the first event; run has handled the events
\* of the construction.
VariantInit ==
  /\ channel \in Constructions
  /\ reader = Len(channel)
  /\ registered_at = 0
  /\ applied = [i \in 1..Len(channel) |-> i]
  /\ graph = HandleEvents(EmptyGraph, channel)
  /\ op = NoOp
  /\ seed = {}
  /\ queue = <<>>
  /\ visited = {}
  /\ order = <<>>
  /\ pc = "idle"
  /\ ExtInit

\* The authoring layer creates an entity and writes Inserted for it.
VariantInserted ==
  /\ Len(channel) < ConstructionLen + MaxVariantEvents
  /\ Live(VariantWorld) # VariantEntities
  /\ \E sym \in NewSyms(VariantWorld) :
       channel' =
         Append(channel, GeometryEvent("Inserted", NewEntity(VariantWorld), sym))
  /\ UNCHANGED <<reader, registered_at, applied, graph, op>>
  /\ UNCHANGED orderVars
  /\ UNCHANGED extVars

\* The authoring layer deletes an entity and writes Removed with the
\* definition the entity had.
VariantRemoved ==
  /\ Len(channel) < ConstructionLen + MaxVariantEvents
  /\ \E e \in Live(VariantWorld) :
       channel' = Append(channel, GeometryEvent("Removed", e, VariantWorld[e]))
  /\ UNCHANGED <<reader, registered_at, applied, graph, op>>
  /\ UNCHANGED orderVars
  /\ UNCHANGED extVars

\* Any other geometry event: a Free point is edited in place.
VariantModified ==
  /\ Len(channel) < ConstructionLen + MaxVariantEvents
  /\ \E e \in Live(VariantWorld) :
       /\ VariantWorld[e].tag = "Free"
       /\ channel' = Append(channel, GeometryEvent("Modified", e, VariantWorld[e]))
  /\ UNCHANGED <<reader, registered_at, applied, graph, op>>
  /\ UNCHANGED orderVars
  /\ UNCHANGED extVars

VariantNext ==
  \/ VariantInserted
  \/ VariantRemoved
  \/ VariantModified
  \/ ManagerRun

VariantSpec == VariantInit /\ [][VariantNext]_vars

\* ------------------------------------------- the graph operations, directly
GraphAdd ==
  /\ \E a \in Entities, b \in Entities :
       /\ Cardinality(Edges(Add(graph, a, b))) <= MaxEdges
       /\ graph' = Add(graph, a, b)
       /\ op' = [name |-> "add", a |-> a, b |-> b]
  /\ UNCHANGED managerVars
  /\ UNCHANGED orderVars
  /\ UNCHANGED extVars

GraphRemove ==
  /\ \E e \in Entities :
       /\ graph' = Remove(graph, e)
       /\ op' = [name |-> "remove", a |-> e, b |-> 0]
  /\ UNCHANGED managerVars
  /\ UNCHANGED orderVars
  /\ UNCHANGED extVars

GraphRemoveDependent ==
  /\ \E a \in Entities, b \in Entities :
       /\ graph' = RemoveDependent(graph, a, b)
       /\ op' = [name |-> "remove_dependent", a |-> a, b |-> b]
  /\ UNCHANGED managerVars
  /\ UNCHANGED orderVars
  /\ UNCHANGED extVars

GraphNext ==
  \/ GraphAdd
  \/ GraphRemove
  \/ GraphRemoveDependent

GraphSpec == Init /\ [][GraphNext]_vars

\* ------------------------------------------------------- recompute_order
\* The orders in which the elements of a set can come out of it.
Perms(S) ==
  {p \in [1..Cardinality(S) -> S] : \A i, j \in DOMAIN p : p[i] = p[j] => i = j}

\* The graph with the given edges.
GraphOf(E) ==
  [a \in {e[1] : e \in E} |-> {e[2] : e \in {f \in E : f[1] = a}}]

\* recompute_order is run on any graph of at most MaxEdges edges, cyclic ones
\* included, with any seed.
OrderInit ==
  /\ channel = <<>>
  /\ reader = NoReader
  /\ registered_at = 0
  /\ applied = <<>>
  /\ \E E \in SUBSET (Entities \X Entities) :
       /\ Cardinality(E) <= MaxEdges
       /\ graph = GraphOf(E)
  /\ op = NoOp
  /\ seed \in SUBSET Entities
  /\ queue = <<>>
  /\ visited = {}
  /\ order = <<>>
  /\ pc = "idle"
  /\ ExtInit

\* Entry: the seed is queued, in the order its set yields it, and marked visited.
OrderStart ==
  /\ pc = "idle"
  /\ queue' \in Perms(seed)
  /\ visited' = seed
  /\ pc' = "running"
  /\ UNCHANGED <<order, seed, graph, op>>
  /\ UNCHANGED managerVars
  /\ UNCHANGED extVars

\* mutant: the visited set is not consulted when dependents are queued
UnvisitedAll(g, n, vis) == Dependents(g, n)

\* The dependents of n the traversal has not met yet.
Unvisited(g, n, vis) == Dependents(g, n) \ vis

\* One step of the level-order traversal: the head of the queue is emitted and
\* its unvisited dependents are queued behind it.
OrderVisit ==
  /\ pc = "running"
  /\ queue # <<>>
  /\ LET n == Head(queue) IN
       /\ \E p \in Perms(Unvisited(graph, n, visited)) :
            queue' = Tail(queue) \o p
       /\ visited' = visited \cup Dependents(graph, n)
       /\ order' = Append(order, n)
       /\ pc' = "running"
  /\ UNCHANGED <<seed, graph, op>>
  /\ UNCHANGED managerVars
  /\ UNCHANGED extVars

\* mutant: an entity met for the second time is taken for a cycle
CycleMetOnRevisit(g, n, vis) == Dependents(g, n) \cap vis # {}

\* What a cycle detected during the traversal is: the entity at the head of
\* the queue has a dependent the traversal has met already, and that dependent
\* leads back to it.
CycleMet(g, n, vis) == \E d \in Dependents(g, n) \cap vis : n \in Reach(g, {d})

\* The traversal fails fast.  How a cycle is detected is not laid down: the
\* traversal may fail at an entity where one can be detected, and it may go
\* on (OrderVisit) when the detection misses it.
OrderFail ==
  /\ pc = "running"
  /\ queue # <<>>
  /\ CycleMet(graph, Head(queue), visited)
  /\ pc' = "failed"
  /\ UNCHANGED <<queue, visited, order, seed, graph, op>>
  /\ UNCHANGED managerVars
  /\ UNCHANGED extVars

\* The queue is empty: the result is complete.
OrderFinish ==
  /\ pc = "running"
  /\ queue = <<>>
  /\ pc' = "done"
  /\ UNCHANGED <<queue, visited, order, seed, graph, op>>
  /\ UNCHANGED managerVars
  /\ UNCHANGED extVars

OrderNext ==
  \/ OrderStart
  \/ OrderVisit
  \/ OrderFail
  \/ OrderFinish

OrderSpec == OrderInit /\ [][OrderNext]_vars

\* A call of recompute_order runs to its end: every enabled step is taken.
OrderFairSpec == OrderSpec /\ WF_vars(OrderNext)

\* ------------------------------------------- the spatial hash table in use
\* Coordinates tried: every half tile from one before the grid to the far
\* edge of the largest viewport.
HalfTile == TILE_SIZE \div 2
Coords == {k * HalfTile : k \in -1..(2 * MaxTiles)}
Points == Coords \X Coords
ViewportSizes == {k * HalfTile : k \in 1..(2 * MaxTiles)}

\* The entities a table holds.
Present(self) == UNION {self.table[i] : i \in DOMAIN self.table}

\* The entities a call is made for: one the table holds, or the next one the
\* world hands out (ids are given in order, as in NewEntity).
Candidates(self) ==
  Present(self)
  \cup {e \in Entities \ Present(self) :
          \A f \in Entities \ Present(self) : e <= f}

\* vp.actual_aabb(): the rectangle from <<0, 0>> to <<w, h>>.
AabbContains(vp, p) == 0 <= p[1] /\ p[1] <= vp.w /\ 0 <= p[2] /\ p[2] <= vp.h

TableInitViewport ==
  /\ hsteps < MaxHashOps
  /\ ~hop.panicked
  /\ \E w \in ViewportSizes, h \in ViewportSizes :
       /\ viewport' = [w |-> w, h |-> h]
       /\ hash' = init_viewport(hash, [w |-> w, h |-> h])
       /\ hop' = [NoHop EXCEPT !.name = "init_viewport", !.p = <<w, h>>,
                                !.q = <<Cardinality(Present(hash)), 0>>]
  /\ hsteps' = 0
  /\ UNCHANGED <<graph, op>>
  /\ UNCHANGED managerVars
  /\ UNCHANGED orderVars
  /\ UNCHANGED solverVars
  /\ UNCHANGED geom
  /\ UNCHANGED uiVars

TableInsertPoint ==
  /\ hsteps < MaxHashOps
  /\ ~hop.panicked
  /\ \E e \in Candidates(hash), p \in Points :
       /\ hash' = table_insert_point(hash, e, p)
       /\ hop' = [NoHop EXCEPT !.name = "insert_point", !.ent = e, !.p = p]
  /\ hsteps' = hsteps + 1
  /\ UNCHANGED <<viewport, graph, op>>
  /\ UNCHANGED managerVars
  /\ UNCHANGED orderVars
  /\ UNCHANGED solverVars
  /\ UNCHANGED geom
  /\ UNCHANGED uiVars

TableRemoveFromAll ==
  /\ hsteps < MaxHashOps
  /\ ~hop.panicked
  /\ \E e \in Candidates(hash) :
       /\ hash' = remove_from_all(hash, e)
       /\ hop' = IF hop.name = "insert_point" /\ hop.ent = e
                 THEN [hop EXCEPT !.name = "remove_from_all", !.follows = TRUE]
                 ELSE [NoHop EXCEPT !.name = "remove_from_all", !.ent = e]
  /\ hsteps' = hsteps + 1
  /\ UNCHANGED <<viewport, graph, op>>
  /\ UNCHANGED managerVars
  /\ UNCHANGED orderVars
  /\ UNCHANGED solverVars
  /\ UNCHANGED geom
  /\ UNCHANGED uiVars

\* For clear, hop.q[1] is the number of entities the table held before.
TableClear ==
  /\ hsteps < MaxHashOps
  /\ ~hop.panicked
  /\ hash' = clear(hash)
  /\ hop' = [NoHop EXCEPT !.name = "clear",
                          !.q = <<Cardinality(Present(hash)), 0>>]
  /\ hsteps' = hsteps + 1
  /\ UNCHANGED <<viewport, graph, op>>
  /\ UNCHANGED managerVars
  /\ UNCHANGED orderVars
  /\ UNCHANGED solverVars
  /\ UNCHANGED geom
  /\ UNCHANGED uiVars

\* The clipped segments that are inserted among the other calls: down the
\* middle of the first column and along the middle of the first row of the
\* viewport; and the radii of the circles, around the center of the first
\* tile.
MixedSegments ==
  {<<<<HalfTile, 0>>, <<HalfTile, viewport.h>>>>,
   <<<<0, HalfTile>>, <<viewport.w, HalfTile>>>>}
MixedRadii == {HalfTile}

\* insert_line among the other calls, the clipped segment being q1-q2.  A
\* call that panics is the last.
TableInsertLineMixed ==
  /\ hsteps < MaxHashOps
  /\ ~hop.panicked
  /\ \E e \in Candidates(hash), s \in MixedSegments :
       /\ AabbContains(viewport, s[1])
       /\ AabbContains(viewport, s[2])
       /\ s[1] # s[2]
       /\ \E r \in table_insert_line(hash, e, s[1], s[2]) :
            /\ hash' = r.self
            /\ hop' = [NoHop EXCEPT !.name = "insert_line", !.ent = e,
                                    !.panicked = r.panicked]
  /\ hsteps' = hsteps + 1
  /\ UNCHANGED <<viewport, graph, op>>
  /\ UNCHANGED managerVars
  /\ UNCHANGED orderVars
  /\ UNCHANGED solverVars
  /\ UNCHANGED geom
  /\ UNCHANGED uiVars

\* insert_circle among the other calls.
TableInsertCircleMixed ==
  /\ hsteps < MaxHashOps
  /\ ~hop.panicked
  /\ \E e \in Candidates(hash), radius \in MixedRadii :
       /\ hash' = table_insert_circle(hash, e, <<HalfTile, HalfTile>>, radius)
       /\ hop' = [NoHop EXCEPT !.name = "insert_circle", !.ent = e]
  /\ hsteps' = hsteps + 1
  /\ UNCHANGED <<viewport, graph, op>>
  /\ UNCHANGED managerVars
  /\ UNCHANGED orderVars
  /\ UNCHANGED solverVars
  /\ UNCHANGED geom
  /\ UNCHANGED uiVars

HashNext ==
  \/ TableInitViewport
  \/ TableInsertPoint
  \/ TableInsertLineMixed
  \/ TableInsertCircleMixed
  \/ TableRemoveFromAll
  \/ TableClear

HashSpec == Init /\ [][HashNext]_vars

\* insert_line, once, on the empty table of any viewport, with any pair of
\* different points of the viewport's rectangle as the clipped segment.
LineInit ==
  /\ channel = <<>>
  /\ reader = NoReader
  /\ registered_at = 0
  /\ applied = <<>>
  /\ graph = EmptyGraph
  /\ op = NoOp
  /\ seed = {}
  /\ queue = <<>>
  /\ visited = {}
  /\ order = <<>>
  /\ pc = "idle"
  /\ \E w \in ViewportSizes, h \in ViewportSizes :
       /\ viewport = [w |-> w, h |-> h]
       /\ hash = init_viewport(DefaultTable, [w |-> w, h |-> h])
       /\ hop = [NoHop EXCEPT !.name = "init_viewport", !.p = <<w, h>>]
  /\ hsteps = 0
  /\ SolverIdle
  /\ geom = NoGeom
  /\ UiIdle

TableInsertLine ==
  /\ hsteps = 0
  /\ \E e \in Entities, q1 \in Points, q2 \in Points :
       /\ AabbContains(viewport, q1)
       /\ AabbContains(viewport, q2)
       /\ q1 # q2
       /\ \E r \in table_insert_line(hash, e, q1, q2) :
            /\ hash' = r.self
            /\ hop' = [NoHop EXCEPT !.name = "insert_line", !.ent = e,
                                    !.p = q1, !.q = q2, !.panicked = r.panicked]
  /\ hsteps' = 1
  /\ UNCHANGED <<viewport, graph, op>>
  /\ UNCHANGED managerVars
  /\ UNCHANGED orderVars
  /\ UNCHANGED solverVars
  /\ UNCHANGED geom
  /\ UNCHANGED uiVars

LineNext == TableInsertLine

LineSpec == LineInit /\ [][LineNext]_vars

\* insert_circle, once, on the empty table of any viewport of up to
\* MaxTiles + 1 tiles a side, so that grids with two more columns than rows,
\* and two more rows than columns, are among them.
CircleViewportSizes == {k * HalfTile : k \in 1..(2 * (MaxTiles + 1))}
CircleCoords == {k * HalfTile : k \in -1..(2 * (MaxTiles + 1))}
Radii == {k * (HalfTile \div 2) : k \in 1..5}

CircleInit ==
  /\ channel = <<>>
  /\ reader = NoReader
  /\ registered_at = 0
  /\ applied = <<>>
  /\ graph = EmptyGraph
  /\ op = NoOp
  /\ seed = {}
  /\ queue = <<>>
  /\ visited = {}
  /\ order = <<>>
  /\ pc = "idle"
  /\ \E w \in CircleViewportSizes, h \in CircleViewportSizes :
       /\ viewport = [w |-> w, h |-> h]
       /\ hash = init_viewport(DefaultTable, [w |-> w, h |-> h])
       /\ hop = [NoHop EXCEPT !.name = "init_viewport", !.p = <<w, h>>]
  /\ hsteps = 0
  /\ SolverIdle
  /\ geom = NoGeom
  /\ UiIdle

\* hop.p is the center, hop.q[1] the radius.
TableInsertCircle ==
  /\ hsteps = 0
  /\ \E e \in Entities, center \in CircleCoords \X CircleCoords, radius \in Radii :
       /\ hash' = table_insert_circle(hash, e, center, radius)
       /\ hop' = [NoHop EXCEPT !.name = "insert_circle", !.ent = e,
                               !.p = center, !.q = <<radius, 0>>]
  /\ hsteps' = 1
  /\ UNCHANGED <<viewport, graph, op>>
  /\ UNCHANGED managerVars
  /\ UNCHANGED orderVars
  /\ UNCHANGED solverVars
  /\ UNCHANGED geom
  /\ UNCHANGED uiVars

CircleNext == TableInsertCircle

CircleSpec == CircleInit /\ [][CircleNext]_vars

\* The queries, on tables of up to MaxTiles + 1 columns (three columns are
\* the least on which the tile after a right border is not a neighbor
\* anyway) and up to MaxTiles rows that up to MaxHashOps calls of insert_point have filled; the
\* points inserted are the centers of the tiles of the grid.
QueryViewportWidths == {k * TILE_SIZE : k \in 1..(MaxTiles + 1)}
QueryViewportHeights == {k * TILE_SIZE : k \in 1..MaxTiles}
TileCenters == {k * TILE_SIZE + HalfTile : k \in 0..MaxTiles}

QueryInit ==
  /\ channel = <<>>
  /\ reader = NoReader
  /\ registered_at = 0
  /\ applied = <<>>
  /\ graph = EmptyGraph
  /\ op = NoOp
  /\ seed = {}
  /\ queue = <<>>
  /\ visited = {}
  /\ order = <<>>
  /\ pc = "idle"
  /\ \E w \in QueryViewportWidths, h \in QueryViewportHeights :
       /\ viewport = [w |-> w, h |-> h]
       /\ hash = init_viewport(DefaultTable, [w |-> w, h |-> h])
       /\ hop = [NoHop EXCEPT !.name = "init_viewport", !.p = <<w, h>>]
  /\ hsteps = 0
  /\ SolverIdle
  /\ geom = NoGeom
  /\ UiIdle

QueryInsertPoint ==
  /\ hsteps < MaxHashOps
  /\ \E e \in Candidates(hash), p \in TileCenters \X TileCenters :
       /\ get_cell(hash, p) # NoCell
       /\ hash' = table_insert_point(hash, e, p)
  /\ hop' = [NoHop EXCEPT !.name = "insert_point"]
  /\ hsteps' = hsteps + 1
  /\ UNCHANGED <<viewport, graph, op>>
  /\ UNCHANGED managerVars
  /\ UNCHANGED orderVars
  /\ UNCHANGED solverVars
  /\ UNCHANGED geom
  /\ UNCHANGED uiVars

QueryNext == QueryInsertPoint

QuerySpec == QueryInit /\ [][QueryNext]_vars

\* remove_from_all, once, on any of these tables.
TableRemoveFromAllOnce ==
  /\ hsteps <= MaxHashOps
  /\ \E e \in Candidates(hash) :
       /\ hash' = remove_from_all(hash, e)
       /\ hop' = [NoHop EXCEPT !.name = "remove_from_all", !.ent = e,
                                !.q = <<Cardinality({i \in DOMAIN hash.table :
                                                      e \in hash.table[i]}), 0>>]
  /\ hsteps' = MaxHashOps + 1
  /\ UNCHANGED <<viewport, graph, op>>
  /\ UNCHANGED managerVars
  /\ UNCHANGED orderVars
  /\ UNCHANGED solverVars
  /\ UNCHANGED geom
  /\ UNCHANGED uiVars

RemoveNext ==
  \/ QueryInsertPoint
  \/ TableRemoveFromAllOnce

RemoveSpec == QueryInit /\ [][RemoveNext]_vars

\* The index over the frames (Specification 2, 3 and 6: the index is updated
\* for every entity whose concrete geometry changed; an invalid entity has
\* nothing to insert).  The update of one entity whose geometry is now g:
\* the entity is taken out of every tile and its geometry, if it has one, is
\* inserted.  The results the update can have.
index_update(self, ent, g) ==
  LET cleared == remove_from_all(self, ent) IN
  IF g.kind = "point"
  THEN {[self |-> table_insert_point(cleared, ent, g.p), panicked |-> FALSE]}
  ELSE IF g.kind = "line"
  THEN table_insert_line(cleared, ent, g.p, g.q)
  ELSE {[self |-> cleared, panicked |-> FALSE]}

\* What one entity can resolve to on a viewport: nothing, a point, or a line
\* whose visible part is the segment from p to q.
NoGeometry == [kind |-> "invalid", ent |-> 0, p |-> <<0, 0>>, q |-> <<0, 0>>]
Geometries(vp, e) ==
  {[NoGeometry EXCEPT !.ent = e]}
  \cup {[kind |-> "point", ent |-> e, p |-> p, q |-> p] :
          p \in {x \in Points : AabbContains(vp, x)}}
  \cup {[kind |-> "line", ent |-> e, p |-> s[1], q |-> s[2]] :
          s \in {x \in Points \X Points :
                   /\ AabbContains(vp, x[1])
                   /\ AabbContains(vp, x[2])
                   /\ x[1] # x[2]}}

\* One entity on the viewport of MaxTiles tiles a side, not yet resolved.
IndexInit ==
  /\ channel = <<>>
  /\ reader = NoReader
  /\ registered_at = 0
  /\ applied = <<>>
  /\ graph = EmptyGraph
  /\ op = NoOp
  /\ seed = {}
  /\ queue = <<>>
  /\ visited = {}
  /\ order = <<>>
  /\ pc = "idle"
  /\ viewport = [w |-> MaxTiles * TILE_SIZE, h |-> MaxTiles * TILE_SIZE]
  /\ hash = init_viewport(DefaultTable, viewport)
  /\ hop = [NoHop EXCEPT !.name = "init_viewport",
                         !.p = <<viewport.w, viewport.h>>]
  /\ hsteps = 0
  /\ SolverIdle
  /\ \E e \in Candidates(DefaultTable) : geom = [NoGeometry EXCEPT !.ent = e]
  /\ UiIdle

\* A frame in which the entity is recomputed: it resolves to g, and the index
\* is updated for it.
IndexFrame ==
  /\ hsteps < MaxHashOps
  /\ ~hop.panicked
  /\ \E g \in Geometries(viewport, geom.ent) :
       /\ geom' = g
       /\ \E r \in index_update(hash, g.ent, g) :
            /\ hash' = r.self
            /\ hop' = [NoHop EXCEPT !.name = "index_update", !.ent = g.ent,
                                    !.panicked = r.panicked]
  /\ hsteps' = hsteps + 1
  /\ UNCHANGED <<viewport, graph, op>>
  /\ UNCHANGED managerVars
  /\ UNCHANGED orderVars
  /\ UNCHANGED solverVars
  /\ UNCHANGED uiVars

IndexNext == IndexFrame

IndexSpec == IndexInit /\ [][IndexNext]_vars

\* The positions the queries are made at.
QueryCoords == {k * HalfTile : k \in -1..(2 * (MaxTiles + 1))}
QueryPoints == QueryCoords \X QueryCoords

\* ------------------------------------------------------------------ Solver
\* (Specification 4.2 and 5; the solver's code is not among the sources.)
\* One frame: the dependency graph is brought up to date, the solver
\* recomputes the changed entities and their transitive dependents in the
\* order recompute_order gives, the spatial index is updated, and the readers
\* (renderer, hit-tester) read.  Between frames the authoring layer edits.

\* The results the level-order traversal of OrderStart / OrderVisit can give
\* from queue q with visited set vis, on an acyclic graph.
RECURSIVE Traversals(_, _, _)
Traversals(g, q, vis) ==
  IF q = <<>> THEN {<<>>}
  ELSE LET n == Head(q) IN
       UNION {{<<n>> \o t :
                 t \in Traversals(g, Tail(q) \o p, vis \cup Dependents(g, n))} :
              p \in Perms(Unvisited(g, n, vis))}

recompute_order(g, S) == UNION {Traversals(g, q, S) : q \in Perms(S)}

\* The constructions that can be degenerate on valid inputs: parallel lines,
\* no intersection of the circle, zero-length radius.
DegenerateTags ==
  {"LineLineIntersect", "CircleLineIntersect", "CircleCircleIntersect",
   "CenterRadius"}

CanDegenerate(w) == {e \in Live(w) : w[e].tag \in DegenerateTags}

\* The value resolution stores for a resolved entity (points, lines and
\* circles are not told apart here).
SomeValue == "value"

\* mutant: the inputs' marks are not looked at
ResolveIgnoreInputs(w, e, store, inv, deg) ==
  IF e \notin deg
  THEN [value |-> SomeValue, invalid |-> FALSE]
  ELSE [value |-> NoValue, invalid |-> TRUE]

\* mutant: an entity that is marked invalid stays so
ResolveSticky(w, e, store, inv, deg) ==
  IF /\ \A a \in Names(w[e]) : a \notin inv /\ store[a] # NoValue
     /\ e \notin deg
     /\ e \notin inv
  THEN [value |-> SomeValue, invalid |-> FALSE]
  ELSE [value |-> NoValue, invalid |-> TRUE]

\* mutant: a failed resolution keeps the value it found in the store
ResolveKeep(w, e, store, inv, deg) ==
  IF /\ \A a \in Names(w[e]) : a \notin inv /\ store[a] # NoValue
     /\ e \notin deg
  THEN [value |-> SomeValue, invalid |-> FALSE]
  ELSE [value |-> store[e], invalid |-> TRUE]

\* Resolution of one entity: it fails when an input is invalid (or its lookup
\* fails) or the construction is degenerate; it is evaluated afresh, whatever
\* mark the entity had.
Resolve(w, e, store, inv, deg) ==
  IF /\ \A a \in Names(w[e]) : a \notin inv /\ store[a] # NoValue
     /\ e \notin deg
  THEN [value |-> SomeValue, invalid |-> FALSE]
  ELSE [value |-> NoValue, invalid |-> TRUE]

\* The constructions whose two inputs play the same part: the solver gives
\* both orders of the inputs the same dependencies and the same value.
SymmetricTags ==
  {"MidPoint", "Straight", "Segment", "LineLineIntersect",
   "CircleCircleIntersect"}

\* One definition for each construction the world w admits.
SolverSyms(w) ==
  {sym \in NewSyms(w) :
     sym.tag \in SymmetricTags => sym.args[1] <= sym.args[2]}

\* The worlds the authoring layer can have built before the first frame: the
\* Inserted events of up to k more entities after the events ch.
RECURSIVE InsertionRuns(_, _)
InsertionRuns(ch, k) ==
  LET w == WorldAfter(EmptyWorld, ch) IN
  IF k = 0 \/ Live(w) = Entities THEN {ch}
  ELSE {ch} \cup UNION {InsertionRuns(
                          Append(ch, GeometryEvent("Inserted", NewEntity(w), sym)),
                          k - 1) :
                        sym \in SolverSyms(w)}

\* Before the first frame: the entities are inserted and their events wait in
\* the channel for the manager, whose reader is registered.
SolverInit ==
  /\ channel \in InsertionRuns(<<>>, MaxEntities)
  /\ reader = 0
  /\ registered_at = 0
  /\ applied = <<>>
  /\ graph = EmptyGraph
  /\ op = NoOp
  /\ seed = {}
  /\ queue = <<>>
  /\ visited = {}
  /\ order = <<>>
  /\ pc = "idle"
  /\ HashInit
  /\ phase = "graph"
  /\ changed = {}
  /\ degenerate \in SUBSET CanDegenerate(WorldAfter(EmptyWorld, channel))
  /\ resolved = [e \in Entities |-> NoValue]
  /\ invalid = {}
  /\ recomputed = <<>>
  /\ indexed = {}
  /\ seen = NotSeen
  /\ geom = NoGeom
  /\ UiIdle

\* Phase 1, DependencyGraphManager::run: the events written since the last
\* frame are applied to the graph; the entities they insert are changed.
FrameGraph ==
  /\ phase = "graph"
  /\ LET read == ReadPositions(channel, reader) IN
       /\ graph' = HandleEvents(graph, [i \in DOMAIN read |-> channel[read[i]]])
       /\ applied' = applied \o read
       /\ reader' = Len(channel)
       /\ changed' = changed \cup {channel[read[i]].ent : i \in DOMAIN read}
  /\ phase' = "order"
  /\ UNCHANGED <<channel, registered_at, op, degenerate, resolved, invalid,
                 recomputed, indexed,
                 seen>>
  /\ UNCHANGED orderVars
  /\ UNCHANGED hashVars
  /\ UNCHANGED geom
  /\ UNCHANGED uiVars

\* Phase 2 begins: the pass takes its order from recompute_order.
SolveOrder ==
  /\ phase = "order"
  /\ order' \in recompute_order(graph, changed)
  /\ recomputed' = <<>>
  /\ phase' = IF order' = <<>> THEN "index" ELSE "solve"
  /\ UNCHANGED <<seed, queue, visited, pc, graph, op, changed, degenerate,
                 resolved, invalid, indexed,
                 seen>>
  /\ UNCHANGED managerVars
  /\ UNCHANGED hashVars
  /\ UNCHANGED geom
  /\ UNCHANGED uiVars

\* Phase 2, one entity: the next entity of the order is resolved.
SolveStep ==
  /\ phase = "solve"
  /\ Len(recomputed) < Len(order)
  /\ LET e == order[Len(recomputed) + 1]
         r == Resolve(World, e, resolved, invalid, degenerate)
     IN /\ resolved' = [resolved EXCEPT ![e] = r.value]
        /\ invalid' = IF r.invalid THEN invalid \cup {e} ELSE invalid \ {e}
        /\ recomputed' = Append(recomputed, e)
  /\ phase' = IF Len(recomputed') = Len(order) THEN "index" ELSE "solve"
  /\ UNCHANGED <<graph, op, changed, degenerate, indexed,
                 seen>>
  /\ UNCHANGED managerVars
  /\ UNCHANGED orderVars
  /\ UNCHANGED hashVars
  /\ UNCHANGED geom
  /\ UNCHANGED uiVars

\* Phase 3: every recomputed entity is taken out of the spatial index and put
\* back if it has a resolved value.
IndexUpdate ==
  /\ phase = "index"
  /\ indexed' = (indexed \ {recomputed[i] : i \in DOMAIN recomputed})
                \cup {recomputed[i] : i \in {j \in DOMAIN recomputed :
                                               recomputed[j] \notin invalid}}
  /\ phase' = "render"
  /\ UNCHANGED <<graph, op, changed, degenerate, resolved, invalid, recomputed,
                 seen>>
  /\ UNCHANGED managerVars
  /\ UNCHANGED orderVars
  /\ UNCHANGED hashVars
  /\ UNCHANGED geom
  /\ UNCHANGED uiVars

\* mutant: the readers run whenever they like
MayReadAnytime(ph) == TRUE

\* The readers run after the three phases of the frame.
MayRead(ph) == ph = "render"

\* The renderer and the hit-tester read the store and the index; the frame
\* ends.
Render ==
  /\ MayRead(phase)
  /\ phase' = IF phase = "render" THEN "author" ELSE phase
  /\ changed' = IF phase = "render" THEN {} ELSE changed
  /\ seen' = [phase |-> phase, pending |-> Len(order) - Len(recomputed)]
  /\ UNCHANGED <<graph, op, degenerate, resolved, invalid, recomputed, indexed>>
  /\ UNCHANGED managerVars
  /\ UNCHANGED orderVars
  /\ UNCHANGED hashVars
  /\ UNCHANGED geom
  /\ UNCHANGED uiVars

\* Between frames: a Free point is dragged.  It is the changed set of the
\* next frame; the constructions that depend on it can become degenerate or
\* stop being so.
AuthorEdit ==
  /\ phase = "author"
  /\ \E e \in Live(World) :
       /\ World[e].tag = "Free"
       /\ changed' = {e}
       /\ LET moved == CanDegenerate(World) \cap Descendants(graph, e) IN
          \E d \in SUBSET moved : degenerate' = (degenerate \ moved) \cup d
  /\ phase' = "graph"
  /\ UNCHANGED <<graph, op, resolved, invalid, recomputed, indexed,
                 seen>>
  /\ UNCHANGED managerVars
  /\ UNCHANGED orderVars
  /\ UNCHANGED hashVars
  /\ UNCHANGED geom
  /\ UNCHANGED uiVars

SolverNext ==
  \/ FrameGraph
  \/ SolveOrder
  \/ SolveStep
  \/ IndexUpdate
  \/ Render
  \/ AuthorEdit

SolverSpec == SolverInit /\ [][SolverNext]_vars

\* ------------------------------------------------- resolution of one entity
\* (Specification 4.2, the per-entity rules; the solver's code is not among
\* the sources.)  Coordinates are integers; a resolved point is a pair of
\* numerators over one denominator, so that an intersection is kept exactly.

MaxCoord == 2

Cross(u, v) == u[1] * v[2] - u[2] * v[1]
Minus(u, v) == <<u[1] - v[1], u[2] - v[2]>>
DistSq(u, v) == (u[1] - v[1]) * (u[1] - v[1]) + (u[2] - v[2]) * (u[2] - v[2])

\* The comparison against zero.  Its tolerance is small: it lies below every
\* nonzero value that integer coordinates give.
NearZero(v) == v = 0

NoPoint == [valid |-> FALSE, num |-> <<0, 0>>, den |-> 1]
RatPoint(num, den) == [valid |-> TRUE, num |-> num, den |-> den]
AtPoint(p) == RatPoint(p, 1)

\* A resolved line: origin, direction, extent.
Line(origin, direction, extent) ==
  [origin |-> origin, direction |-> direction, extent |-> extent]

\* The parameter t of the intersection along l1, as numerator and denominator.
IntersectParam(l1, l2) ==
  [num |-> Cross(Minus(l2.origin, l1.origin), l2.direction),
   den |-> Cross(l1.direction, l2.direction)]

\* The parameter t is within the drawn extent of a line of this extent (a
\* segment is drawn from t = 0 to t = 1).
InExtent(extent, t) ==
  CASE extent = "Full" -> TRUE
    [] extent = "Ray" -> t.num * t.den >= 0
    [] extent = "Segment" ->
         t.num * t.den >= 0 /\ Abs(t.num) <= Abs(t.den)

\* mutant: a solution outside the drawn extent of the first line is refused
line_line_intersect_clipped(l1, l2) ==
  LET t == IntersectParam(l1, l2) IN
  IF NearZero(t.den) \/ ~InExtent(l1.extent, t) THEN NoPoint
  ELSE RatPoint(<<l1.origin[1] * t.den + t.num * l1.direction[1],
                  l1.origin[2] * t.den + t.num * l1.direction[2]>>, t.den)

\* LineLineIntersect(L1, L2): the 2x2 system origin1 + t * direction1 =
\* origin2 + s * direction2 is solved for t; no solution when the directions
\* are parallel.
line_line_intersect(l1, l2) ==
  LET t == IntersectParam(l1, l2) IN
  IF NearZero(t.den) THEN NoPoint
  ELSE RatPoint(<<l1.origin[1] * t.den + t.num * l1.direction[1],
                  l1.origin[2] * t.den + t.num * l1.direction[2]>>, t.den)

\* mutant: the first solution is taken whatever the previous value was
select_branch_first(prev, sols) ==
  IF sols = <<>> THEN NoPoint ELSE AtPoint(sols[1])

\* CircleLineIntersect / CircleCircleIntersect: the choice among the
\* solutions the intersection primitive returned, given the entity's own
\* previous value.  No solution: invalid.  No previous value: the first
\* solution.  Otherwise the solution nearest to the previous value.
select_branch(prev, sols) ==
  IF sols = <<>> THEN NoPoint
  ELSE IF ~prev.valid THEN AtPoint(sols[1])
  ELSE AtPoint(CHOOSE s \in Elems(sols) :
                 /\ \A r \in Elems(sols) : DistSq(s, prev.num) <= DistSq(r, prev.num)
                 /\ (s # sols[1] => DistSq(s, prev.num) < DistSq(sols[1], prev.num)))

\* ---- the inputs tried
GridPoints == (0..MaxCoord) \X (0..MaxCoord)
LineOrigins == {<<0, 0>>, <<0, 5>>, <<5, 0>>, <<MaxCoord, 1>>}
Directions == ((-1..2) \X (-1..2)) \ {<<0, 0>>}
Extents == {"Full", "Ray", "Segment"}
Lines == {Line(o, d, x) : o \in LineOrigins, d \in Directions, x \in Extents}

\* What the intersection primitive can return for two branches at a and b:
\* both in either order, one of them, or nothing.
Solutions(a, b) == {<<a, b>>, <<b, a>>, <<a>>, <<b>>, <<>>}

\* Two resolved lines whose LineLineIntersect entity is about to be
\* resolved, or an intersection entity of two branches that has not been
\* resolved yet.
GeomInit ==
  /\ geom \in {[kind |-> "lines", l1 |-> l1, l2 |-> l2, done |-> FALSE,
                out |-> NoPoint] : l1 \in Lines, l2 \in Lines}
         \cup {[kind |-> "branch", a |-> ab[1], b |-> ab[2], sols |-> <<>>,
                value |-> NoPoint] :
                 ab \in {x \in GridPoints \X GridPoints : x[1] # x[2]}}
  /\ channel = <<>>
  /\ reader = NoReader
  /\ registered_at = 0
  /\ applied = <<>>
  /\ graph = EmptyGraph
  /\ op = NoOp
  /\ seed = {}
  /\ queue = <<>>
  /\ visited = {}
  /\ order = <<>>
  /\ pc = "idle"
  /\ HashInit
  /\ SolverIdle
  /\ UiIdle

\* The LineLineIntersect entity is resolved.
ResolveLineLine ==
  /\ geom.kind = "lines"
  /\ ~geom.done
  /\ geom' = [geom EXCEPT !.out = line_line_intersect(geom.l1, geom.l2),
                          !.done = TRUE]
  /\ UNCHANGED <<graph, op>>
  /\ UNCHANGED managerVars
  /\ UNCHANGED orderVars
  /\ UNCHANGED hashVars
  /\ UNCHANGED solverVars
  /\ UNCHANGED uiVars

\* One pass over a two-branch intersection entity: its inputs have moved, the
\* branches are at a and b now, the primitive returns sols, and the entity
\* is resolved with the value of the pass before as its previous value.
ResolveBranch ==
  /\ geom.kind = "branch"
  /\ \E a \in GridPoints : \E b \in GridPoints \ {a} :
       \E sols \in Solutions(a, b) :
         geom' = [geom EXCEPT !.a = a, !.b = b, !.sols = sols,
                              !.value = select_branch(geom.value, sols)]
  /\ UNCHANGED <<graph, op>>
  /\ UNCHANGED managerVars
  /\ UNCHANGED orderVars
  /\ UNCHANGED hashVars
  /\ UNCHANGED solverVars
  /\ UNCHANGED uiVars

GeomNext ==
  \/ ResolveLineLine
  \/ ResolveBranch

GeomSpec == GeomInit /\ [][GeomNext]_vars

\* ------------------------------------------------- the SenderSystem in use
\* (The systems that create entities and write the screen shapes are not
\* among the sources.)  Entities have the ids 1..MaxIds; at most MaxPending
\* events (component events and marker events) are written between two
\* runs.  An entity takes the components of any kind, of several kinds too,
\* as the storages do; the kinds written are WrittenKinds (run handles the
\* four kinds alike).
MaxIds == 1
MaxPending == 3
Ids == 1..MaxIds
WrittenKinds == {"Point", "Circle"}

CoreIdle ==
  /\ channel = <<>>
  /\ reader = NoReader
  /\ registered_at = 0
  /\ applied = <<>>
  /\ graph = EmptyGraph
  /\ op = NoOp
  /\ seed = {}
  /\ queue = <<>>
  /\ visited = {}
  /\ order = <<>>
  /\ pc = "idle"
  /\ HashInit
  /\ SolverIdle
  /\ geom = NoGeom

SenderInit ==
  /\ CoreIdle
  /\ ecs = NoWorld
  /\ input = IdleInput(FALSE)

\* The same with the history of the announced entities kept.
SenderHistoryInit ==
  /\ CoreIdle
  /\ ecs = [NoWorld EXCEPT !.remembers = TRUE]
  /\ input = IdleInput(FALSE)

\* The entities the messages announce as inserted.
InsertedIn(msgs) ==
  {msgs[i].ent : i \in {j \in DOMAIN msgs : msgs[j].type = "Inserted"}}

\* The number of events not yet read.
RECURSIVE TotalLen(_, _)
TotalLen(f, S) ==
  IF S = {} THEN 0
  ELSE LET k == CHOOSE x \in S : TRUE IN Len(f[k]) + TotalLen(f, S \ {k})

PendingComponentEvents(w) ==
  TotalLen(w.shape_events, ShapeKinds) + TotalLen(w.style_events, ShapeKinds)

Pending(w) == PendingComponentEvents(w) + Len(w.marker_events)

\* The world when the next frame begins: the messages of the last run go into
\* the history.
Frame(w) ==
  [w EXCEPT !.sent = <<>>,
            !.read = 0,
            !.announced = IF w.remembers THEN @ \cup InsertedIn(w.sent) ELSE @]

\* The channel after the storage has written an event: a reader sees the
\* events written after it registered.
Written(w, events, tag, id) ==
  IF w.registered THEN Append(events, ComponentEvent(tag, id)) ELSE events

\* The same for the channel of a style, of which only the Modified events
\* are kept: run reads the others and does nothing with them.
WrittenStyle(w, events, tag, id) ==
  IF tag = "Modified" THEN Written(w, events, tag, id) ELSE events

\* world.create_entity()
EcsCreate ==
  /\ \E id \in Ids \ ecs.alive :
       ecs' = [Frame(ecs) EXCEPT !.alive = @ \cup {id}]
  /\ UNCHANGED input
  /\ UNCHANGED coreVars

\* The screen shape of an entity is inserted (ComponentEvent::Inserted), or
\* replaced or borrowed mutably (ComponentEvent::Modified).
EcsWriteShape ==
  /\ Pending(ecs) < MaxPending
  /\ \E id \in ecs.alive, k \in WrittenKinds :
       ecs' = [Frame(ecs) EXCEPT
            !.shapes[k] = @ \cup {id},
            !.shape_events[k] =
               Written(ecs, @, IF id \in ecs.shapes[k] THEN "Modified"
                               ELSE "Inserted", id)]
  /\ UNCHANGED input
  /\ UNCHANGED coreVars

\* The same for the style.
EcsWriteStyle ==
  /\ Pending(ecs) < MaxPending
  /\ \E id \in ecs.alive, k \in WrittenKinds :
       ecs' = [Frame(ecs) EXCEPT
            !.styles[k] = @ \cup {id},
            !.style_events[k] =
               WrittenStyle(ecs, @, IF id \in ecs.styles[k] THEN "Modified"
                                    ELSE "Inserted", id)]
  /\ UNCHANGED input
  /\ UNCHANGED coreVars

\* The screen shape is removed from an entity that stays alive.
EcsRemoveShape ==
  /\ Pending(ecs) < MaxPending
  /\ \E k \in ShapeKinds : \E id \in ecs.shapes[k] :
       ecs' = [Frame(ecs) EXCEPT
         !.shapes[k] = @ \ {id},
         !.shape_events[k] = Written(ecs, @, "Removed", id)]
  /\ UNCHANGED input
  /\ UNCHANGED coreVars

\* The entity is deleted: its components are removed with it.
EcsDelete ==
  /\ Pending(ecs) + 1 < MaxPending
  /\ \E id \in ecs.alive :
       ecs' = [Frame(ecs) EXCEPT
         !.alive = @ \ {id},
         !.shapes = [k \in ShapeKinds |-> ecs.shapes[k] \ {id}],
         !.styles = [k \in ShapeKinds |-> ecs.styles[k] \ {id}],
         !.shape_events =
            [k \in ShapeKinds |->
               IF id \in ecs.shapes[k]
               THEN Written(ecs, ecs.shape_events[k], "Removed", id)
               ELSE ecs.shape_events[k]],
         !.style_events =
            [k \in ShapeKinds |->
               IF id \in ecs.styles[k]
               THEN WrittenStyle(ecs, ecs.style_events[k], "Removed", id)
               ELSE ecs.style_events[k]]]
  /\ UNCHANGED input
  /\ UNCHANGED coreVars

\* A marker event is written.
EcsMarker ==
  /\ Pending(ecs) < MaxPending
  /\ ecs.registered
  /\ \E tag \in {"Select", "Deselect", "Other"}, ent \in Ids :
       ecs' = [Frame(ecs) EXCEPT !.marker_events = Append(@, MarkerEvent(tag, ent))]
  /\ UNCHANGED input
  /\ UNCHANGED coreVars

\* SenderSystem::setup: the readers are registered.
SenderSetup ==
  /\ ~ecs.registered
  /\ ecs' = [Frame(ecs) EXCEPT !.registered = TRUE]
  /\ UNCHANGED input
  /\ UNCHANGED coreVars

\* SenderSystem::run: the events are read and the messages sent.
SenderRun ==
  /\ ecs' = [Frame(ecs) EXCEPT
       !.sent = sender_run(ecs),
       !.read = IF ecs.registered THEN PendingComponentEvents(ecs) ELSE 0,
       !.shape_events = [k \in ShapeKinds |-> <<>>],
       !.style_events = [k \in ShapeKinds |-> <<>>],
       !.marker_events = <<>>]
  /\ UNCHANGED input
  /\ UNCHANGED coreVars

SenderNext ==
  \/ EcsCreate
  \/ EcsWriteShape
  \/ EcsWriteStyle
  \/ EcsRemoveShape
  \/ EcsDelete
  \/ EcsMarker
  \/ SenderSetup
  \/ SenderRun

SenderSpec == SenderInit /\ [][SenderNext]_vars

SenderHistorySpec == SenderHistoryInit /\ [][SenderNext]_vars

\* ---------------------------------------------------- the InputState in use
\* (The system that decodes the window events and writes the InputState is
\* not among the sources.)  The keys that are pressed and released, and the
\* places the mouse is moved to.
TypedKeys == {"A", "S"}
ToolKeys == {"S", "P", "L", "C"}
PerpendicularKeys ==
  {"Backslash", "LShift", "RShift", "LCtrl", "RCtrl", "LCommand"}
MousePlaces == {<<0, 0>>, <<3, 4>>}

InputInit ==
  /\ CoreIdle
  /\ UiIdle

\* The build is for macOS or for another system.
PerpendicularInit ==
  /\ CoreIdle
  /\ ecs = NoWorld
  /\ \E macos \in BOOLEAN : input = IdleInput(macos)

\* input_state.keyboard.set(key, pressed) for one of the keys.
KeySetOf(keys) ==
  \E key \in keys, pressed \in BOOLEAN :
    \A flips \in {(key \in input.down) # pressed} :
      input' = [input EXCEPT
        !.state.keyboard = Keyboard_set(@, key, pressed),
        !.call = "input",
        !.tools = <<>>,
        !.commands = <<>>,
        !.down = IF pressed THEN @ \cup {key} ELSE @ \ {key},
        !.ever = IF pressed THEN @ \cup {key} ELSE @,
        !.changed = IF flips THEN @ \cup {key} ELSE @,
        !.perp = IF key = "Backslash" /\ flips THEN "none" ELSE @]

InputKeySet ==
  /\ KeySetOf(TypedKeys)
  /\ UNCHANGED ecs
  /\ UNCHANGED coreVars

\* A mouse button or the focus is set.
InputButtonSet ==
  /\ \E button \in {"mouse_left_button", "mouse_right_button", "in_focus"},
        pressed \in BOOLEAN :
       input' = [input EXCEPT !.state[button] = ActiveState_set(@, pressed),
                              !.call = "input"]
  /\ UNCHANGED ecs
  /\ UNCHANGED coreVars

\* The mouse is moved, with the left button dragging or not.
InputMouseMove ==
  /\ \E to \in MousePlaces, dragging \in BOOLEAN :
       input' = [input EXCEPT
         !.state.mouse_rel_movement =
            <<to[1] - input.state.mouse_abs_pos[1],
              to[2] - input.state.mouse_abs_pos[2]>>,
         !.state.mouse_abs_pos = to,
         !.state.is_mouse_left_button_dragging = dragging,
         !.call = "input"]
  /\ UNCHANGED ecs
  /\ UNCHANGED coreVars

\* The wheel is turned.
InputScroll ==
  /\ input' = [input EXCEPT !.state.rel_scroll = <<0, 1>>, !.call = "input"]
  /\ UNCHANGED ecs
  /\ UNCHANGED coreVars

\* input_state.reset_relative_data(), at the end of a frame.
InputReset ==
  /\ input' = [input EXCEPT
       !.state = InputState_reset_relative_data(@),
       !.call = "reset_relative_data",
       !.tools = <<>>,
       !.commands = <<>>,
       !.changed = {},
       !.perp = IF @ = "wrote" THEN "reset" ELSE @]
  /\ UNCHANGED ecs
  /\ UNCHANGED coreVars

InputNext ==
  \/ InputKeySet
  \/ InputButtonSet
  \/ InputMouseMove
  \/ InputScroll
  \/ InputReset

InputSpec == InputInit /\ [][InputNext]_vars

\* One of the keys S, P, L, C is pressed or released.
ToolKeySet ==
  /\ KeySetOf(ToolKeys)
  /\ UNCHANGED ecs
  /\ UNCHANGED coreVars

\* ChangeToolViaKeyboard::run: it reads the InputState and writes to the
\* ToolChangeEventChannel.
ChangeToolRun ==
  /\ input' = [input EXCEPT !.tools = change_tool_run(input.state),
                            !.commands = <<>>,
                            !.call = "change_tool"]
  /\ UNCHANGED ecs
  /\ UNCHANGED coreVars

ToolNext ==
  \/ ToolKeySet
  \/ InputReset
  \/ ChangeToolRun

ToolSpec == InputInit /\ [][ToolNext]_vars

\* Backslash, a shift key or a command key is pressed or released.
PerpendicularKeySet ==
  /\ KeySetOf(PerpendicularKeys)
  /\ UNCHANGED ecs
  /\ UNCHANGED coreVars

\* CreatePerpendicularViaKeyboard::run: it reads the InputState and writes to
\* the CommandEventChannel.
CreatePerpendicularRun ==
  /\ \A out \in {create_perpendicular_run(input.state, input.macos)} :
       input' = [input EXCEPT !.commands = out,
                              !.tools = <<>>,
                              !.call = "create_perpendicular",
                              !.perp = IF out # <<>> THEN "wrote" ELSE @]
  /\ UNCHANGED ecs
  /\ UNCHANGED coreVars

PerpendicularNext ==
  \/ PerpendicularKeySet
  \/ InputReset
  \/ CreatePerpendicularRun

PerpendicularSpec == PerpendicularInit /\ [][PerpendicularNext]_vars

\* ================================================================= claims

\* The events run has handled so far: those written after the reader
\* registered, up to the reader's position.
Processed ==
  IF reader = NoReader THEN <<>> ELSE SubSeq(channel, registered_at + 1, reader)

\* The graph that handling the first k events of the channel after the
\* registration, one by one from an empty graph, gives.
GraphAt(k) == HandleEvents(EmptyGraph, SubSeq(channel, registered_at + 1, k))

\* The construction contract, over a sequence of events starting in world w:
\* an inserted entity is new and its definition names live entities only; an
\* entity is removed with the definition it has, after every entity naming it.
RECURSIVE ContractOK(_, _)
ContractOK(w, events) ==
  IF events = <<>> THEN TRUE
  ELSE LET ev == Head(events) IN
       /\ CASE ev.kind = "Inserted" ->
                 /\ w[ev.ent] = NoDef
                 /\ Names(ev.sym) \subseteq Live(w)
            [] ev.kind = "Removed" ->
                 /\ w[ev.ent] = ev.sym
                 /\ \A f \in Live(w) : ev.ent \notin Names(w[f])
            [] OTHER -> TRUE
       /\ ContractOK(WorldStep(w, ev), Tail(events))

\* C1: when the events the manager has handled keep the construction contract,
\* the graph holds the edge a -> b exactly when b is inserted and b's
\* definition names a.
C1_EdgesMirrorDefinitions ==
  (reader # NoReader /\ ContractOK(NoEntities, Processed)) =>
    LET w == WorldAfter(NoEntities, Processed) IN
    \A a \in VariantEntities, b \in VariantEntities :
      (b \in Dependents(graph, a)) <=> (w[b] # NoDef /\ a \in Names(w[b]))

\* C1 witness: a contract-keeping sequence has been handled; the entity
\* inserted last is the intersection of a circle and a line, and the graph has
\* the edge from each of the two to it.
C1_Witness ==
  /\ reader # NoReader
  /\ ContractOK(NoEntities, Processed)
  /\ LET ev == Processed[Len(Processed)] IN
       /\ ev.kind = "Inserted"
       /\ ev.sym.tag = "CircleLineIntersect"
       /\ ev.ent \in Dependents(graph, ev.sym.args[1])
       /\ ev.ent \in Dependents(graph, ev.sym.args[2])

\* C4: the dependency graph is acyclic: no entity is its own transitive
\* dependent.
C4_Acyclic == \A e \in Entities : e \notin Descendants(graph, e)

\* C4 witness: a chain of two edges a -> b -> c has been built.
C4_Witness ==
  \E a \in Entities, b \in Entities, c \in Entities :
    /\ b \in Dependents(graph, a)
    /\ c \in Dependents(graph, b)

\* C6: add is idempotent on every graph the manager builds; an entity whose
\* definition names the same entity p twice gets the single edge p -> entity
\* when its insertion is handled, and no edge p -> entity is left when its
\* removal is handled.
C6_AddIdempotent ==
  /\ \A a \in Entities, b \in Entities :
       LET once == Add(graph, a, b) IN Add(once, a, b) = once
  /\ (Processed # <<>>) =>
       LET ev == Processed[Len(Processed)] IN
       (Len(ev.sym.args) = 2 /\ ev.sym.args[1] = ev.sym.args[2]) =>
         /\ ev.kind = "Inserted" =>
              {x \in Entities : ev.ent \in Dependents(graph, x)} = {ev.sym.args[1]}
         /\ ev.kind = "Removed" =>
              {x \in Entities : ev.ent \in Dependents(graph, x)} = {}

\* C6 witness: the removal of a MidPoint(p, p) whose insertion was handled
\* too has been handled.
C6_Witness ==
  /\ Len(Processed) >= 2
  /\ LET ev == Processed[Len(Processed)] IN
       /\ ev.kind = "Removed"
       /\ ev.sym.tag = "MidPoint"
       /\ ev.sym.args[1] = ev.sym.args[2]
       /\ \E i \in 1..(Len(Processed) - 1) :
            Processed[i] = GeometryEvent("Inserted", ev.ent, ev.sym)

\* C7: right after Removed(ent, def) is handled the graph has no edge with
\* ent at either end: ent has no entry and is in no dependent set.
C7_RemovedHasNoEdges ==
  (Processed # <<>> /\ Processed[Len(Processed)].kind = "Removed") =>
    LET ent == Processed[Len(Processed)].ent IN
    /\ ent \notin DOMAIN graph
    /\ \A x \in Entities : ent \notin Dependents(graph, x)

\* C7 witness: the entity removed last names other entities and had
\* dependents of its own when it was removed.
C7_Witness ==
  /\ Len(Processed) >= 2
  /\ LET ev == Processed[Len(Processed)] IN
       /\ ev.kind = "Removed"
       /\ Names(ev.sym) # {}
       /\ Dependents(GraphAt(reader - 1), ev.ent) # {}

\* C8: remove(entity) changes the entity's own entry only: every other
\* entity keeps its entry and its dependent set, the removed entity included
\* in it.
C8_RemoveFrame ==
  [][\A e \in Entities :
       (graph' = Remove(graph, e) /\ op' = [name |-> "remove", a |-> e, b |-> 0]) =>
         \A x \in Entities \ {e} :
           /\ (x \in DOMAIN graph') <=> (x \in DOMAIN graph)
           /\ Dependents(graph', x) = Dependents(graph, x)]_vars

\* C8 witness: remove was called on an entity that had an entry and is still
\* in another entity's dependent set afterwards.
C8_Witness ==
  /\ op.name = "remove"
  /\ op.a \notin DOMAIN graph
  /\ \E x \in Entities \ {op.a} : op.a \in Dependents(graph, x)

\* Event k does not mention entity e.
Unrelated(k, e) == channel[k].ent # e /\ e \notin Names(channel[k].sym)

\* C9: when Inserted(e, def) and later Removed(e, def) have been handled and
\* no event between them mentions e, the edges are those the graph would have
\* without the two events.
C9_RemovalMirrorsInsertion ==
  reader # NoReader =>
    \A i \in (registered_at + 1)..reader, j \in (registered_at + 1)..reader :
      ( /\ i < j
        /\ channel[i].kind = "Inserted"
        /\ channel[j] = GeometryEvent("Removed", channel[i].ent, channel[i].sym)
        /\ \A k \in (i + 1)..(j - 1) : Unrelated(k, channel[i].ent) ) =>
        Edges(GraphAt(j)) =
          Edges(HandleEvents(GraphAt(i - 1), SubSeq(channel, i + 1, j - 1)))

\* C9 witness: the intersection point of two different lines was inserted
\* and removed again, both handled, the removal last; the edges are those of
\* before the insertion.
C9_Witness ==
  /\ Len(Processed) >= 2
  /\ Processed[Len(Processed)].kind = "Removed"
  /\ Processed[Len(Processed) - 1] =
       GeometryEvent("Inserted", Processed[Len(Processed)].ent,
                     Processed[Len(Processed)].sym)
  /\ Processed[Len(Processed)].sym.tag = "LineLineIntersect"
  /\ Cardinality(Names(Processed[Len(Processed)].sym)) = 2
  /\ Edges(graph) = Edges(GraphAt(reader - 2))
  /\ Edges(graph) # {}

\* C10: the manager handles the events written after its reader registered
\* once each and in the order written; the graph is the result of handling
\* them one by one; a run leaves nothing unread, and a run that finds nothing
\* new leaves the graph as it is.
C10_EachEventOnceInOrder ==
  /\ [](reader # NoReader =>
          /\ applied = [i \in 1..(reader - registered_at) |-> registered_at + i]
          /\ graph = GraphAt(reader))
  /\ [][(ManagerRun /\ reader # NoReader) =>
          /\ reader' = Len(channel)
          /\ (reader = Len(channel) => graph' = graph)]_vars

\* C10 witness: two runs have handled events, after a registration that came
\* later than the first event.
C10_Witness ==
  /\ reader # NoReader
  /\ registered_at >= 1
  /\ reader = Len(channel)
  /\ Len(applied) >= 2
  /\ graph # EmptyGraph

\* The positions of the result an entity is at.
PositionsOf(e) == {i \in DOMAIN order : order[i] = e}

\* C2: in a result of recompute_order on an acyclic graph, a dependency comes
\* before each of its dependents.  Stated for a seed of one entity, the case
\* the claim singles out: the order of the seed's own entities plays no part.
C2_DependencyBeforeDependent ==
  ( /\ pc = "done"
    /\ Cardinality(seed) = 1
    /\ \A e \in Entities : e \notin Descendants(graph, e) ) =>
    \A i \in DOMAIN order, j \in DOMAIN order :
      order[j] \in Dependents(graph, order[i]) => i < j

\* C3: the result of recompute_order holds the seed and everything reachable
\* from it along dependent edges, nothing else, and each entity once.
C3_ExactlyReachableOnce ==
  pc = "done" =>
    /\ {order[i] : i \in DOMAIN order} = Reach(graph, seed)
    /\ \A e \in Entities : Cardinality(PositionsOf(e)) <= 1

\* C3 witness: a result holding an entity that two entities of the result
\* have as their dependent.
C3_Witness ==
  /\ pc = "done"
  /\ \E b \in Entities :
       /\ PositionsOf(b) # {}
       /\ Cardinality({a \in Entities :
                         PositionsOf(a) # {} /\ b \in Dependents(graph, a)}) >= 2

\* An entity reachable from the seed is its own transitive dependent.
CycleReachable == \E n \in Reach(graph, seed) : n \in Descendants(graph, n)

InGrid(self, p) ==
  /\ 0 <= p[1] /\ p[1] < self.x_tiles * TILE_SIZE
  /\ 0 <= p[2] /\ p[2] < self.y_tiles * TILE_SIZE

\* The column (row) whose span of TILE_SIZE pixels holds the coordinate v.
TileOf(v) ==
  CHOOSE c \in -1..(MaxTiles + 1) : c * TILE_SIZE <= v /\ v < (c + 1) * TILE_SIZE

\* C18: round trip of the spatial index.  After insert_point(e, p) at a point
\* of the grid the query get_neighbor_entities_of_point at p returns a list
\* that contains e; after a remove_from_all(e) that follows, the same query
\* returns a list without e, the empty list when the table holds nothing else
\* (whatever the order in which the HashSets are iterated).
C18_RoundTrip ==
  /\ (hop.name = "insert_point" /\ InGrid(hash, hop.p)) =>
       \A r \in get_neighbor_entities_of_point(hash, hop.p) :
         r.some /\ hop.ent \in Elems(r.list)
  /\ (hop.name = "remove_from_all" /\ hop.follows /\ InGrid(hash, hop.p)) =>
       \A r \in get_neighbor_entities_of_point(hash, hop.p) :
         /\ r.some
         /\ hop.ent \notin Elems(r.list)
         /\ Present(hash) = {} => r.list = <<>>

\* An entity was inserted at a point of the grid off the first tile, found by
\* the query there, and removed again: the query at that point is empty.
C18_Witness ==
  /\ hop.name = "remove_from_all"
  /\ hop.follows
  /\ InGrid(hash, hop.p)
  /\ TileOf(hop.p[1]) >= 1
  /\ get_neighbor_entities_of_point(hash, hop.p) = {SomeList(<<>>)}

\* C19: insert_point(e, p) adds e to the tile with column floor(x / TILE_SIZE)
\* and row floor(y / TILE_SIZE), index row * x_tiles + column, and changes no
\* other tile; when the column or the row is outside the grid no tile changes.
C19_InsertPointOneTile ==
  [][hop'.name = "insert_point" =>
       LET e == hop'.ent
           column == TileOf(hop'.p[1])
           row == TileOf(hop'.p[2])
           inside == /\ 0 <= column /\ column < hash.x_tiles
                     /\ 0 <= row /\ row < hash.y_tiles
       IN /\ hash'.x_tiles = hash.x_tiles
          /\ hash'.y_tiles = hash.y_tiles
          /\ hash'.table =
               IF inside
               THEN [hash.table EXCEPT ![row * hash.x_tiles + column] = @ \cup {e}]
               ELSE hash.table]_vars

\* An entity was inserted at a point on a tile boundary, in a row and a column
\* past the first, into a table that held another entity.
C19_Witness ==
  /\ hop.name = "insert_point"
  /\ InGrid(hash, hop.p)
  /\ hop.p[1] % TILE_SIZE = 0
  /\ TileOf(hop.p[1]) >= 1
  /\ TileOf(hop.p[2]) >= 1
  /\ hop.ent \in hash.table[TileOf(hop.p[2]) * hash.x_tiles + TileOf(hop.p[1])]
  /\ Present(hash) # {hop.ent}

\* The points of the segment from p to q at the parameters i / TILE_SIZE,
\* as <<x, y>> in units of 1 / TILE_SIZE pixel.
SegmentSamples(p, q) ==
  {<<p[1] * TILE_SIZE + (q[1] - p[1]) * i, p[2] * TILE_SIZE + (q[2] - p[2]) * i>> :
     i \in 0..TILE_SIZE}

\* C20: insert_line covers the line.  After insert_line(e, l), the tile of
\* every point of l within its extent and within the viewport's rectangle
\* (a point of the clipped segment) holds e, whatever the direction of l,
\* exactly horizontal and exactly vertical included.
C20_LineCovered ==
  hop.name = "insert_line" =>
    /\ ~hop.panicked
    /\ \A s \in SegmentSamples(hop.p, hop.q) :
         LET column == s[1] \div (TILE_SIZE * TILE_SIZE)
             row == s[2] \div (TILE_SIZE * TILE_SIZE)
         IN (column < hash.x_tiles /\ row < hash.y_tiles) =>
              hop.ent \in hash.table[row * hash.x_tiles + column]

\* ---- the solver pass

\* The entity the pass resolves next.
NextEntity == order[Len(recomputed) + 1]

\* The dependencies of e in the graph.
Dependencies(g, e) == {a \in DOMAIN g : e \in g[a]}

\* C11: a pass over a changed set S recomputes every entity of S and every
\* transitive dependent of S, each of them only after all of its dependencies
\* that are recomputed in the same pass.  (Stated for a single changed entity,
\* at the end of the pass.)
C11_PassInDependencyOrder ==
  (phase = "index" /\ Cardinality(changed) = 1) =>
    /\ Elems(recomputed) = Reach(graph, changed)
    /\ \A i \in DOMAIN recomputed : \A j \in DOMAIN recomputed :
         recomputed[i] \in Dependencies(graph, recomputed[j]) => i < j

\* C12: when the pass reaches an entity B whose definition references an
\* entity A that is invalid at that moment, B is marked invalid and has no
\* resolved value, whatever B's variant and whatever made A invalid; nothing
\* touches B's mark again before the pass and the frame are over.
C12_InvalidityPropagates ==
  [][/\ (phase = "solve" /\ \E a \in Names(World[NextEntity]) : a \in invalid)
          => (NextEntity \in invalid' /\ resolved'[NextEntity] = NoValue)
     /\ phase = "solve" =>
          \A b \in Elems(recomputed) :
            (b \in invalid' <=> b \in invalid) /\ resolved'[b] = resolved[b]
     /\ phase \in {"index", "render"} =>
          (invalid' = invalid /\ resolved' = resolved)]_vars

\* An entity other than a degenerate construction was reached by the pass
\* while an input of it was invalid, and is invalid at the end of the pass.
C12_Witness ==
  /\ phase = "index"
  /\ \E b \in Elems(recomputed) :
       /\ b \notin degenerate
       /\ b \in invalid
       /\ resolved[b] = NoValue
       /\ \E a \in Names(World[b]) : a \in invalid /\ a \in degenerate

\* C13: when the pass reaches an entity whose inputs are all valid and whose
\* own resolution succeeds, the entity is valid after the step, whether or not
\* it was marked invalid by an earlier pass.
C13_ValidityRecovers ==
  [][(/\ phase = "solve"
      /\ \A a \in Names(World[NextEntity]) :
           a \notin invalid /\ resolved[a] # NoValue
      /\ NextEntity \notin degenerate)
       => (NextEntity \notin invalid' /\ resolved'[NextEntity] # NoValue)]_vars

\* A pass of a later frame is over; an entity that is not itself a degenerate
\* kind of construction was left invalid by the frame before (the index does
\* not hold it yet) and the pass has made it valid again.
C13_Witness ==
  /\ phase = "index"
  /\ \E b \in Elems(recomputed) \ changed :
       /\ World[b].tag \notin DegenerateTags
       /\ b \notin invalid
       /\ resolved[b] # NoValue
       /\ b \notin indexed

\* C14: after a completed pass an entity is marked invalid exactly when it
\* has no resolved value.
C14_InvalidIffNoValue ==
  phase \in {"index", "render", "author"} =>
    \A e \in Live(World) : e \in invalid <=> resolved[e] = NoValue

\* A pass of a later frame is over; an entity that the frame before left
\* valid (the index still holds it) is invalid now, beside a valid one.
C14_Witness ==
  /\ phase = "index"
  /\ \E e \in Elems(recomputed) \ changed :
       e \in invalid /\ e \in indexed /\ resolved[e] = NoValue
  /\ \E e \in Live(World) : e \notin invalid /\ resolved[e] # NoValue

\* The order of the phases within a frame and between frames.
PhaseSteps ==
  {<<"graph", "order">>, <<"order", "solve">>, <<"order", "index">>,
   <<"solve", "index">>, <<"index", "render">>, <<"render", "author">>,
   <<"author", "graph">>}

\* C17: within a frame the graph update, the solve and the index update run
\* in that order, each touching its data only in its own phase, and the
\* readers only read after the index update of a pass that recomputed every
\* entity of its order.
C17_PhasesInOrder ==
  /\ [](/\ seen.phase \in {"none", "render"}
        /\ seen.pending = 0
        /\ phase \in {"index", "render"} => recomputed = order)
  /\ [][/\ phase' # phase => <<phase, phase'>> \in PhaseSteps
        /\ graph' # graph => phase = "graph"
        /\ (resolved' # resolved \/ invalid' # invalid) => phase = "solve"
        /\ indexed' # indexed => phase = "index"
        /\ seen' # seen => phase = "render"]_vars

\* The readers have read after a pass over more than one entity, and the
\* next frame's pass is under way.
C17_Witness ==
  /\ seen.phase = "render"
  /\ phase = "solve"
  /\ Len(order) > 1
  /\ 0 < Len(recomputed)
  /\ Len(recomputed) < Len(order)

\* ---- resolution of one entity

\* The resolved point r lies on the infinite carrier of the line l.
OnCarrier(r, l) ==
  Cross(<<r.num[1] - l.origin[1] * r.den, r.num[2] - l.origin[2] * r.den>>,
        l.direction) = 0

\* C15: LineLineIntersect is invalid exactly when the two directions are
\* parallel, as (1,0) and (2,0) are; otherwise it is the one point of both
\* infinite carriers, whatever the extents of the two lines and also outside
\* them; the lines through (0,5) along (1,0) and through (5,0) along (0,1)
\* give (5,5).
C15_LineLineIntersect ==
  (geom.kind = "lines" /\ geom.done) =>
    LET l1 == geom.l1
        l2 == geom.l2
        r == geom.out
    IN /\ r.valid <=> Cross(l1.direction, l2.direction) # 0
       /\ (l1.direction = <<1, 0>> /\ l2.direction = <<2, 0>>) => ~r.valid
       /\ r.valid =>
            /\ r.den # 0
            /\ OnCarrier(r, l1)
            /\ OnCarrier(r, l2)
            /\ \A q \in (-1..6) \X (-1..6) :
                 (OnCarrier(AtPoint(q), l1) /\ OnCarrier(AtPoint(q), l2))
                   => r.num = <<q[1] * r.den, q[2] * r.den>>
       /\ r = line_line_intersect(Line(l1.origin, l1.direction, "Full"),
                                  Line(l2.origin, l2.direction, "Full"))
       /\ (/\ l1.origin = <<0, 5>> /\ l1.direction = <<1, 0>>
           /\ l2.origin = <<5, 0>> /\ l2.direction = <<0, 1>>)
            => (r.valid /\ r.num = <<5 * r.den, 5 * r.den>>)

\* A ray and a segment that are not parallel have been intersected, and the
\* point lies on the carrier of the ray behind its origin.
C15_Witness ==
  /\ geom.kind = "lines"
  /\ geom.done
  /\ geom.out.valid
  /\ geom.l1.extent = "Ray"
  /\ geom.l2.extent = "Segment"
  /\ ~InExtent("Ray", IntersectParam(geom.l1, geom.l2))

\* The change from g to h is small: each branch has moved by less than half
\* of what separates the two branches.
SmallChange(g, h) ==
  /\ 4 * DistSq(g.a, h.a) < DistSq(h.a, h.b)
  /\ 4 * DistSq(g.b, h.b) < DistSq(h.a, h.b)

\* C16: a two-branch intersection entity with a previous value takes the
\* solution nearest to that value; while both branches remain and the inputs
\* change little from pass to pass it stays on its branch, in whatever order
\* the primitive returns the solutions; the first solution returned is used
\* when there is no previous value.
C16_BranchContinuity ==
  [][geom.kind = "branch" =>
       LET prev == geom.value
           sols == geom'.sols
           v == geom'.value
       IN /\ v.valid <=> sols # <<>>
          /\ (sols # <<>> /\ ~prev.valid) => v = AtPoint(sols[1])
          /\ (sols # <<>> /\ prev.valid) =>
               /\ v.num \in Elems(sols)
               /\ \A s \in Elems(sols) :
                    DistSq(v.num, prev.num) <= DistSq(s, prev.num)
          /\ (Len(geom.sols) = 2 /\ Len(sols) = 2 /\ SmallChange(geom, geom')) =>
               /\ prev = AtPoint(geom.a) => v = AtPoint(geom'.a)
               /\ prev = AtPoint(geom.b) => v = AtPoint(geom'.b)]_vars

\* The entity is on the branch the primitive returns second, and that branch
\* is not where it was when the entity was first resolved.
C16_Witness ==
  /\ geom.kind = "branch"
  /\ Len(geom.sols) = 2
  /\ geom.value.valid
  /\ geom.value = AtPoint(geom.sols[2])
  /\ DistSq(geom.sols[1], geom.sols[2]) > 4

\* ---- insert_line: exactness

\* On which side of the line from p to q each corner of the tile in column c
\* and row r lies (the sign of the cross product), one value per corner.
CornerSides(p, q, c, r) ==
  {Cross(Minus(q, p), Minus(<<x, y>>, p)) :
     x \in {c * TILE_SIZE, (c + 1) * TILE_SIZE},
     y \in {r * TILE_SIZE, (r + 1) * TILE_SIZE}}

\* The infinite line through p and q has a point in the closed square of the
\* tile: the corners are not all strictly on one side of it.
CarrierMeetsTile(p, q, c, r) ==
  /\ ~(\A s \in CornerSides(p, q, c, r) : s > 0)
  /\ ~(\A s \in CornerSides(p, q, c, r) : s < 0)

\* The segment from p to q has a point in the closed square of the tile, a
\* point of its border included.
SegmentMeetsTile(p, q, c, r) ==
  /\ Max2(p[1], q[1]) >= c * TILE_SIZE
  /\ Min2(p[1], q[1]) <= (c + 1) * TILE_SIZE
  /\ Max2(p[2], q[2]) >= r * TILE_SIZE
  /\ Min2(p[2], q[2]) <= (r + 1) * TILE_SIZE
  /\ CarrierMeetsTile(p, q, c, r)

\* The tiles of the table that hold the entity, as <<column, row>>.
TilesHolding(self, ent) ==
  {t \in (0..(self.x_tiles - 1)) \X (0..(self.y_tiles - 1)) :
     ent \in self.table[t[2] * self.x_tiles + t[1]]}

\* C21: insert_line is exact.  After insert_line(e, l) on an empty table,
\* every tile that holds e has a point of the visible part of l (the clipped
\* segment) in its square.
C21_LineExact ==
  hop.name = "insert_line" =>
    \A t \in TilesHolding(hash, hop.ent) :
      SegmentMeetsTile(hop.p, hop.q, t[1], t[2])

\* C22: insert_line respects the extent.  For a segment that lies within the
\* viewport's rectangle, a tile that the carrier line meets only beyond the
\* ends of the segment does not receive the entity.
C22_ExtentRespected ==
  hop.name = "insert_line" =>
    \A t \in TilesHolding(hash, hop.ent) :
      CarrierMeetsTile(hop.p, hop.q, t[1], t[2])
        => SegmentMeetsTile(hop.p, hop.q, t[1], t[2])

\* ---- insert_circle

\* The square of the tile in column i and row j has a point within the
\* circle, inside it (strictly) or on it.
TileInCircle(i, j, center, radius, strictly) ==
  LET dx == IF center[1] < i * TILE_SIZE THEN i * TILE_SIZE - center[1]
            ELSE IF center[1] > (i + 1) * TILE_SIZE
            THEN center[1] - (i + 1) * TILE_SIZE ELSE 0
      dy == IF center[2] < j * TILE_SIZE THEN j * TILE_SIZE - center[2]
            ELSE IF center[2] > (j + 1) * TILE_SIZE
            THEN center[2] - (j + 1) * TILE_SIZE ELSE 0
  IN IF strictly THEN dx * dx + dy * dy < radius * radius
     ELSE dx * dx + dy * dy <= radius * radius

\* C23: insert_circle(e, c) on an empty table puts e into every tile of the
\* grid whose square comes within the radius of the center, and into no
\* other, on every shape of grid.  (A tile that the circle only touches from
\* outside may or may not hold e.)
C23_CircleTiles ==
  hop.name = "insert_circle" =>
    \A i \in 0..(hash.x_tiles - 1), j \in 0..(hash.y_tiles - 1) :
      LET held == hop.ent \in hash.table[j * hash.x_tiles + i] IN
        /\ TileInCircle(i, j, hop.p, hop.q[1], TRUE) => held
        /\ held => TileInCircle(i, j, hop.p, hop.q[1], FALSE)

\* C29: the assertions in insert_line and insert_circle never fail: no call
\* computes a tile index outside the table, so no call aborts.
C29_NoAssertFails ==
  hop.name \in {"insert_line", "insert_circle"} => ~hop.panicked

\* ---- the queries

\* The column (row) of the coordinate v, on grids of up to MaxTiles + 1
\* tiles a side.
TileAt(v) ==
  CHOOSE c \in -1..(MaxTiles + 2) : c * TILE_SIZE <= v /\ v < (c + 1) * TILE_SIZE

\* The entities held by the tiles of the grid whose column is column c or
\* next to it and whose row is row r or next to it.
HeldAround(self, c, r) ==
  UNION {self.table[t[2] * self.x_tiles + t[1]] :
           t \in {u \in (0..(self.x_tiles - 1)) \X (0..(self.y_tiles - 1)) :
                    u[1] - c \in -1..1 /\ u[2] - r \in -1..1}}

\* C24: get_neighbor_entities_of_point(p) is None exactly when p is outside
\* the grid; otherwise it is a list without duplicates of exactly the
\* entities in the tile of p and in its adjacent tiles, up to 8, that the
\* grid has: nothing from the row before or after at a left or right border.
C24_NeighborsOfPoint ==
  \A p \in QueryPoints :
    \A res \in get_neighbor_entities_of_point(hash, p) :
      /\ res.some <=> InGrid(hash, p)
      /\ res.some =>
           /\ \A i \in DOMAIN res.list : \A j \in DOMAIN res.list :
                res.list[i] = res.list[j] => i = j
           /\ Elems(res.list) = HeldAround(hash, TileAt(p[1]), TileAt(p[2]))

\* On a grid of three columns and two rows, the tile after the right border
\* of the top row (tile 3, the first of the bottom row) holds an entity that
\* the last tile of the top row (tile 2) does not hold, and tile 2 holds one.
C24_Witness ==
  /\ hash.x_tiles = 3
  /\ hash.y_tiles = 2
  /\ hash.table[3] # {}
  /\ hash.table[2] # {}
  /\ hash.table[3] \cap hash.table[2] = {}

\* The rectangles the aabb query is made with.
QueryExtents == {0, HalfTile, 3 * HalfTile}
QueryOrigins == {-HalfTile} \cup TileCenters
QueryAabbs ==
  {[x |-> x, y |-> y, width |-> w, height |-> h] :
     x \in QueryOrigins, y \in QueryOrigins,
     w \in QueryExtents, h \in QueryExtents}

\* C25: get_neighbor_entities_of_aabb returns exactly the entities of the
\* tiles of the grid with column between those of x and x + width and row
\* between those of y and y + height; a rectangle whose tiles are all
\* outside the grid gives the empty set.
C25_NeighborsOfAabb ==
  \A aabb \in QueryAabbs :
    \A first \in {<<TileAt(aabb.x), TileAt(aabb.y)>>} :
      \A last \in {<<TileAt(aabb.x + aabb.width),
                      TileAt(aabb.y + aabb.height)>>} :
        get_neighbor_entities_of_aabb(hash, aabb) =
          UNION {hash.table[t[2] * hash.x_tiles + t[1]] :
                   t \in {u \in (0..(hash.x_tiles - 1))
                                   \X (0..(hash.y_tiles - 1)) :
                            /\ first[1] <= u[1] /\ u[1] <= last[1]
                            /\ first[2] <= u[2] /\ u[2] <= last[2]}}

\* A grid of three columns and two rows holds an entity in its last tile
\* only and another in its first tile only: a rectangle from the first tile
\* into the second row of the second column returns the one and not the
\* other.
C25_Witness ==
  /\ hash.x_tiles = 3
  /\ hash.y_tiles = 2
  /\ hash.table[0] # {}
  /\ hash.table[5] # {}
  /\ hash.table[5] \cap hash.table[0] = {}
  /\ get_neighbor_entities_of_aabb(
       hash, [x |-> HalfTile, y |-> HalfTile, width |-> HalfTile,
              height |-> HalfTile]) = hash.table[0]

\* C30: on every grid with at least one column and one row, every tile
\* index that get_neighbor_entities_of_point computes for a point of the
\* grid is an index of the table, and so is what the subtraction of x_tiles
\* leaves before 1 is subtracted or added.
C30_NeighborIndicesInTable ==
  \A p \in QueryPoints :
    LET center_tile == get_cell(hash, p) IN
      center_tile # NoCell =>
        /\ hash.x_tiles >= 1
        /\ hash.y_tiles >= 1
        /\ \A t \in Elems(NeighborTiles(hash, center_tile)) :
             0 <= t /\ t < hash.x_tiles * hash.y_tiles
        /\ ~is_top_border(hash, center_tile) => center_tile - hash.x_tiles >= 0
        /\ Len(NeighborTiles(hash, center_tile)) =
             Cardinality(Elems(NeighborTiles(hash, center_tile)))

\* Grids of one column and of one row with more than one tile, an entity in
\* the last tile.
C30_Witness ==
  /\ hash.x_tiles = 1 \/ hash.y_tiles = 1
  /\ hash.x_tiles * hash.y_tiles > 1
  /\ hash.table[hash.x_tiles * hash.y_tiles - 1] # {}

\* The number of tiles that cover v pixels: the least k with k * TILE_SIZE
\* pixels no shorter than v.
TilesToCover(v) ==
  CHOOSE k \in 0..(MaxTiles + 1) :
    /\ k * TILE_SIZE >= v
    /\ \A j \in 0..(k - 1) : j * TILE_SIZE < v

\* C26: after init_viewport(vp), whatever the table held before, x_tiles and
\* y_tiles are the actual width and height divided by TILE_SIZE and rounded
\* up, the table has exactly x_tiles * y_tiles tiles, and every tile is empty.
C26_InitViewportEmpties ==
  hop.name = "init_viewport" =>
    /\ hash.x_tiles = TilesToCover(hop.p[1])
    /\ hash.y_tiles = TilesToCover(hop.p[2])
    /\ DOMAIN hash.table = 0..(hash.x_tiles * hash.y_tiles - 1)
    /\ \A i \in DOMAIN hash.table : hash.table[i] = {}

\* init_viewport was called on a table that held an entity, with a viewport
\* of more than one tile whose width is not a whole number of tiles.
C26_Witness ==
  /\ hop.name = "init_viewport"
  /\ hop.q[1] >= 1
  /\ hop.p[1] % TILE_SIZE # 0
  /\ hash.x_tiles * hash.y_tiles >= 2

\* C27: after remove_from_all(e) no tile contains e; for every other entity
\* the tiles that contain it are the ones that did before, and the grid
\* dimensions are unchanged.
C27_RemoveFromAll ==
  [][hop'.name = "remove_from_all" =>
       /\ \A i \in DOMAIN hash'.table : hop'.ent \notin hash'.table[i]
       /\ hash'.x_tiles = hash.x_tiles
       /\ hash'.y_tiles = hash.y_tiles
       /\ DOMAIN hash'.table = DOMAIN hash.table
       /\ \A f \in Entities \ {hop'.ent} :
            TilesHolding(hash', f) = TilesHolding(hash, f)]_vars

\* An entity that two tiles held was removed.
C27_Witness ==
  /\ hop.name = "remove_from_all"
  /\ hop.q[1] >= 2
  /\ Present(hash) = {}

\* C28: after each completed frame the tiles of the index that contain an
\* entity are tiles of its current resolved geometry: none when the entity is
\* invalid, the tile of the point, tiles that have a point of the visible
\* part of the line in their square.
C28_IndexFollowsGeometry ==
  (hop.name = "index_update" /\ ~hop.panicked) =>
    \A t \in TilesHolding(hash, geom.ent) :
      /\ geom.kind # "invalid"
      /\ geom.kind = "point" => t = <<TileAt(geom.p[1]), TileAt(geom.p[2])>>
      /\ geom.kind = "line" => SegmentMeetsTile(geom.p, geom.q, t[1], t[2])

\* C28 holds of the entities that resolve to points or to nothing.
C28_PointsOnly ==
  (hop.name = "index_update" /\ geom.kind # "line") =>
    \A t \in TilesHolding(hash, geom.ent) :
      /\ geom.kind = "point"
      /\ t = <<TileAt(geom.p[1]), TileAt(geom.p[2])>>

\* The distances along one axis between a point inserted and a query.
Offsets == {-TILE_SIZE, -HalfTile, 0, HalfTile, TILE_SIZE}

\* C31: after insert_point(e, q) at a point q of the grid, the query
\* get_neighbor_entities_of_point at every point p of the grid that is no
\* further than TILE_SIZE from q along each axis returns a list with e.
C31_HitTest ==
  (hop.name = "insert_point" /\ InGrid(hash, hop.p)) =>
    \A dx \in Offsets, dy \in Offsets :
      \A p \in {<<hop.p[1] + dx, hop.p[2] + dy>>} :
        InGrid(hash, p) =>
          \A r \in get_neighbor_entities_of_point(hash, p) :
            r.some /\ hop.ent \in Elems(r.list)

\* An entity was inserted on a tile boundary, and the point one tile to the
\* left and one tile below is a point of the grid (in the tile diagonally
\* adjacent) whose query returns the entity.
C31_Witness ==
  /\ hop.name = "insert_point"
  /\ InGrid(hash, hop.p)
  /\ hop.p[1] % TILE_SIZE = 0
  /\ InGrid(hash, <<hop.p[1] - TILE_SIZE, hop.p[2] + TILE_SIZE>>)
  /\ \A r \in get_neighbor_entities_of_point(
                 hash, <<hop.p[1] - TILE_SIZE, hop.p[2] + TILE_SIZE>>) :
       hop.ent \in Elems(r.list)

\* The events among evs that are Inserted or Removed, in their order.
Structural(evs) ==
  SelectSeq(evs, LAMBDA ev : ev.kind \in {"Inserted", "Removed"})

\* C32: geometry events other than Inserted and Removed leave the dependency
\* graph unchanged: the graph is what the Inserted and Removed events handled
\* so far give, and a run that reads no Inserted and no Removed event leaves
\* the graph as it found it.
C32_OtherEventsKeepGraph ==
  /\ [](reader # NoReader =>
          graph = HandleEvents(EmptyGraph,
                               Structural(SubSeq(channel, registered_at + 1,
                                                 reader))))
  /\ [][(ManagerRun /\ reader # NoReader
         /\ Structural(SubSeq(channel, reader + 1, Len(channel))) = <<>>)
          => graph' = graph]_vars

\* The manager has handled the modification of an entity that has dependents.
C32_Witness ==
  /\ reader # NoReader
  /\ \E i \in DOMAIN applied :
       /\ channel[applied[i]].kind = "Modified"
       /\ Dependents(graph, channel[applied[i]].ent) # {}

\* The group of a message.
Group(msg) ==
  CASE msg.type = "Inserted" -> 1
    [] msg.type \in {"Updated", "UpdatedStyle"} -> 2
    [] msg.type = "RemovedEntity" -> 3
    [] OTHER -> 4

\* The message of a Select or Deselect event.
MarkerMessage(ev) ==
  RenderUpdateEvent(IF ev.tag = "Select" THEN "SelectedEntity"
                    ELSE "DeselectedEntity", "", ev.ent)

\* C33: the messages of one run are in the order Inserted, Updated (shape or
\* style), RemovedEntity, SelectedEntity / DeselectedEntity; and the select
\* and deselect messages of a run are those of the Select and Deselect
\* events it read, in the order they were written.
C33_MessageOrder ==
  /\ [](\A i \in DOMAIN ecs.sent, j \in DOMAIN ecs.sent :
          i < j => Group(ecs.sent[i]) <= Group(ecs.sent[j]))
  /\ [][(Pending(ecs') = 0 /\ SenderRun) =>
          \A evs \in {SelectSeq(ecs.marker_events,
                                LAMBDA ev : ev.tag \in {"Select", "Deselect"})} :
            \A msgs \in {SelectSeq(ecs'.sent, LAMBDA msg : Group(msg) = 4)} :
              /\ Len(msgs) = IF ecs.registered THEN Len(evs) ELSE 0
              /\ \A i \in DOMAIN msgs : msgs[i] = MarkerMessage(evs[i])]_vars

\* A run has sent three messages: an Inserted, an Updated and a RemovedEntity
\* message, in that order.
C33_Witness ==
  /\ Len(ecs.sent) = 3
  /\ ecs.sent[1].type = "Inserted"
  /\ ecs.sent[2].type = "Updated"
  /\ ecs.sent[3].type = "RemovedEntity"

\* C34: every RemovedEntity message follows an Inserted message for the same
\* entity, sent earlier in the same run or in an earlier run.
C34_RemovedAfterInserted ==
  \A j \in DOMAIN ecs.sent :
    ecs.sent[j].type = "RemovedEntity" =>
      \/ ecs.sent[j].ent \in ecs.announced
      \/ \E i \in 1..(j - 1) :
           /\ ecs.sent[i].type = "Inserted"
           /\ ecs.sent[i].ent = ecs.sent[j].ent

\* C35 as stated: the messages of one run hold at most one Inserted, one
\* Updated (shape), one Updated (style) and one RemovedEntity message for an
\* entity.
C35_OneMessagePerEntity ==
  \A i \in DOMAIN ecs.sent, j \in DOMAIN ecs.sent :
    (/\ i < j
     /\ ecs.sent[i].type \in {"Inserted", "Updated", "UpdatedStyle",
                              "RemovedEntity"}
     /\ ecs.sent[i].ent = ecs.sent[j].ent)
      => ecs.sent[i].type # ecs.sent[j].type

\* C35 (as amended): the messages of one run hold, for an entity, at most one
\* Inserted message of each kind of shape, one Updated (shape) message of each
\* kind, one Updated (style) message of each kind, and one RemovedEntity
\* message.
C35_OneMessagePerEntityAndKind ==
  \A i \in DOMAIN ecs.sent, j \in DOMAIN ecs.sent :
    (/\ i < j
     /\ ecs.sent[i].type \in {"Inserted", "Updated", "UpdatedStyle",
                              "RemovedEntity"}
     /\ ecs.sent[i].ent = ecs.sent[j].ent
     /\ ecs.sent[i].kind = ecs.sent[j].kind)
      => ecs.sent[i].type # ecs.sent[j].type

\* A run has read three component events or more and sent two messages: an
\* Updated message for the point and one for the circle of the same entity.
C35_Witness ==
  /\ ecs.read >= 3
  /\ Len(ecs.sent) = 2
  /\ ecs.sent[1].type = "Updated"
  /\ ecs.sent[2].type = "Updated"
  /\ ecs.sent[1].ent = ecs.sent[2].ent
  /\ ecs.sent[1].kind # ecs.sent[2].kind

\* C36: for every key, just_activated holds exactly when the key is pressed
\* and a set has changed its pressed value since the last reset_relative_data,
\* just_deactivated exactly when it is not pressed and such a change occurred;
\* the two never hold together; a key that was never pressed reports false for
\* is_activated, just_activated and just_deactivated.
C36_KeyTransitions ==
  \A k \in Keys :
    \A ja \in {Keyboard_just_activated(input.state.keyboard, k)},
       jd \in {Keyboard_just_deactivated(input.state.keyboard, k)} :
      /\ ja <=> (k \in input.down /\ k \in input.changed)
      /\ jd <=> (k \notin input.down /\ k \in input.changed)
      /\ ~(ja /\ jd)
      /\ k \notin input.ever =>
           /\ ~Keyboard_is_activated(input.state.keyboard, k)
           /\ ~ja
           /\ ~jd

\* A is held since before the last reset_relative_data (active, not just
\* activated), and S, pressed earlier, was released after that reset (just
\* deactivated).
C36_Witness ==
  /\ "A" \in input.down
  /\ "A" \notin input.changed
  /\ Keyboard_is_activated(input.state.keyboard, "A")
  /\ ~Keyboard_just_activated(input.state.keyboard, "A")
  /\ "S" \in input.ever
  /\ "S" \notin input.down
  /\ "S" \in input.changed
  /\ Keyboard_just_deactivated(input.state.keyboard, "S")

\* The ActiveStates of the InputState besides the keys.
Buttons == {"mouse_left_button", "mouse_right_button", "in_focus"}

\* C37: reset_relative_data leaves no key, no mouse button and not the focus
\* just activated or just deactivated, sets the relative mouse movement and the
\* scroll to zero, and keeps is_activated of every key and button, the
\* absolute mouse position and the dragging flag.
C37_ResetRelativeData ==
  [][InputReset =>
       /\ \A k \in Keys :
            /\ ~Keyboard_just_activated(input'.state.keyboard, k)
            /\ ~Keyboard_just_deactivated(input'.state.keyboard, k)
            /\ Keyboard_is_activated(input'.state.keyboard, k)
                 = Keyboard_is_activated(input.state.keyboard, k)
       /\ \A b \in Buttons :
            /\ ~ActiveState_just_activated(input'.state[b])
            /\ ~ActiveState_just_deactivated(input'.state[b])
       /\ \A b \in {"mouse_left_button", "mouse_right_button"} :
            ActiveState_is_activated(input'.state[b])
              = ActiveState_is_activated(input.state[b])
       /\ input'.state.mouse_rel_movement = <<0, 0>>
       /\ input'.state.rel_scroll = <<0, 0>>
       /\ input'.state.mouse_abs_pos = input.state.mouse_abs_pos
       /\ input'.state.is_mouse_left_button_dragging
            = input.state.is_mouse_left_button_dragging]_vars

\* reset_relative_data was called with a key and the left button held, the
\* mouse away from the origin and dragging: they are as they were, nothing
\* is just activated, the relative movement and the scroll are zero.
C37_Witness ==
  /\ input.call = "reset_relative_data"
  /\ Keyboard_is_activated(input.state.keyboard, "A")
  /\ ~Keyboard_just_activated(input.state.keyboard, "A")
  /\ ActiveState_is_activated(input.state.mouse_left_button)
  /\ ~ActiveState_just_activated(input.state.mouse_left_button)
  /\ input.state.is_mouse_left_button_dragging
  /\ input.state.mouse_abs_pos = <<3, 4>>
  /\ input.state.mouse_rel_movement = <<0, 0>>
  /\ input.state.rel_scroll = <<0, 0>>

\* The tool keys in their priority order, with the tool of each.
ToolPriority ==
  <<<<"S", "Select">>, <<"P", "Point">>, <<"L", "Line">>, <<"C", "Circle">>>>

\* C38: a run of ChangeToolViaKeyboard writes at most one ToolChangeEvent:
\* that of the first of S, P, L, C that became active since the last
\* reset_relative_data, and none when no such key did.
C38_OneToolChange ==
  input.call = "change_tool" =>
    \A became \in {{i \in DOMAIN ToolPriority :
                      /\ ToolPriority[i][1] \in input.down
                      /\ ToolPriority[i][1] \in input.changed}} :
      /\ Len(input.tools) <= 1
      /\ became = {} => input.tools = <<>>
      /\ became # {} =>
           input.tools =
             <<ToolPriority[CHOOSE i \in became : \A j \in became : i <= j][2]>>

\* P and C became active in the same frame with S merely held down: the run
\* wrote the event of the Point tool alone.
C38_Witness ==
  /\ input.call = "change_tool"
  /\ {"P", "C"} \subseteq input.down \cap input.changed
  /\ "S" \in input.down
  /\ "S" \notin input.changed
  /\ input.tools = <<"Point">>

\* A command key of the build is held; a shift key is held.
CommandHeld ==
  IF input.macos THEN input.down \cap {"LCommand", "RCommand"} # {}
  ELSE input.down \cap {"LCtrl", "RCtrl"} # {}
ShiftHeld == input.down \cap {"LShift", "RShift"} # {}

\* C39: a run of CreatePerpendicularViaKeyboard writes the one command
\* LineInsert(InsertPerpendicularFromSelection) with event_id None when a
\* command key and a shift key are active and Backslash became active since
\* the last reset_relative_data, and nothing otherwise; after a run that wrote
\* and a reset_relative_data, the runs write nothing as long as Backslash is
\* held.
C39_PerpendicularOnce ==
  /\ [](input.call = "create_perpendicular" =>
          input.commands =
            IF /\ CommandHeld
               /\ ShiftHeld
               /\ "Backslash" \in input.down
               /\ "Backslash" \in input.changed
            THEN <<InsertPerpendicular>> ELSE <<>>)
  /\ [][(input.perp = "reset" /\ CreatePerpendicularRun) =>
          input'.commands = <<>>]_vars

\* A run wrote the command, reset_relative_data was called, and the run after
\* it, with Backslash, the command key and the shift key still held, wrote
\* nothing.
C39_Witness ==
  /\ input.call = "create_perpendicular"
  /\ input.perp = "reset"
  /\ CommandHeld
  /\ ShiftHeld
  /\ "Backslash" \in input.down
  /\ input.commands = <<>>

====
